---- MODULE Spec2Model ----
(***************************************************************************)
(* Format-handler plugins of artifact-keeper-example-plugin: the Python    *)
(* (pypi-format), RPM (rpm-format) and Unity (unity-format) handlers.      *)
(*                                                                         *)
(* Every operation of the plugins is a pure function of its arguments.    *)
(* The state of the model is one call of the host into one loaded plugin: *)
(* which plugin is loaded, the arguments the host passes, and the value   *)
(* the call returned.                                                      *)
(*                                                                         *)
(* Strings are sequences of one-character strings and byte buffers are    *)
(* sequences of integers 0..255.  An Option is a sequence of length 0     *)
(* (None) or 1 (Some).                                                     *)
(***************************************************************************)
EXTENDS Integers, Sequences, FiniteSets, TLC

VARIABLES plugin, pc, op, request, context, artifacts, path, data, ret, prev, overflow_checks

vars == <<plugin, pc, op, request, context, artifacts, path, data, ret, prev, overflow_checks>>

-----------------------------------------------------------------------------
(* Bounds of the model.                                                    *)

\* longest filename stem drawn for parse_metadata / validate
MaxStemLen == 4

\* longest artifact list passed to handle_request
MaxArtifacts == 2

\* longest artifact list passed to generate_index
MaxIndexArtifacts == 3

-----------------------------------------------------------------------------
(* Option and Result values.                                               *)

None == << >>

Some(x) == << x >>

IsSome(o) == Len(o) = 1

Unwrap(o) == o[1]

Ok(v) == [tag |-> "ok", val |-> v]

Err(m, a) == [tag |-> "err", msg |-> m, arg |-> a]

Panic == [tag |-> "panic"]

NoRet == [tag |-> "none"]

-----------------------------------------------------------------------------
(* Characters: ASCII order, case, classes.                                 *)

Uppers == <<"A","B","C","D","E","F","G","H","I","J","K","L","M",
            "N","O","P","Q","R","S","T","U","V","W","X","Y","Z">>

Lowers == <<"a","b","c","d","e","f","g","h","i","j","k","l","m",
            "n","o","p","q","r","s","t","u","v","w","x","y","z">>

Digits == <<"0","1","2","3","4","5","6","7","8","9">>

\* the characters of the model in ascending ASCII order
AsciiOrder == <<"&", "-", ".", "/">> \o Digits \o Uppers \o <<"_">> \o Lowers

Range(s) == {s[i] : i \in DOMAIN s}

CharCode(c) == CHOOSE i \in DOMAIN AsciiOrder : AsciiOrder[i] = c

is_ascii_digit(c) == c \in Range(Digits)

is_ascii_alphabetic(c) == c \in Range(Uppers) \cup Range(Lowers)

is_ascii_alphanumeric(c) == is_ascii_digit(c) \/ is_ascii_alphabetic(c)

\* characters outside ASCII are written by their code point: U+00E9 is a
\* lower-case letter, U+212A (KELVIN SIGN) is an upper-case letter whose
\* lower case is the ASCII k
NonAscii == {"U+00E9", "U+212A"}

char_to_lowercase(c) ==
    IF c \in Range(Uppers)
    THEN Lowers[CHOOSE i \in DOMAIN Uppers : Uppers[i] = c]
    ELSE IF c = "U+212A" THEN "k"
    ELSE c

to_lowercase(s) == [i \in DOMAIN s |-> char_to_lowercase(s[i])]

-----------------------------------------------------------------------------
(* str methods used by the plugins.                                        *)

is_empty(s) == Len(s) = 0

ends_with(s, suf) ==
    /\ Len(suf) <= Len(s)
    /\ SubSeq(s, Len(s) - Len(suf) + 1, Len(s)) = suf

starts_with(s, pre) ==
    /\ Len(pre) <= Len(s)
    /\ SubSeq(s, 1, Len(pre)) = pre

strip_suffix(s, suf) ==
    IF ends_with(s, suf) THEN Some(SubSeq(s, 1, Len(s) - Len(suf))) ELSE None

strip_prefix(s, pre) ==
    IF starts_with(s, pre) THEN Some(SubSeq(s, Len(pre) + 1, Len(s))) ELSE None

contains(s, c) == \E i \in DOMAIN s : s[i] = c

\* positions of c in s
Positions(s, c) == {i \in DOMAIN s : s[i] = c}

Max(S) == CHOOSE m \in S : \A n \in S : n <= m

Min(S) == CHOOSE m \in S : \A n \in S : m <= n

\* s.rsplit_once(c): None, or Some(<<before, after>>) around the last c
rsplit_once(s, c) ==
    IF Positions(s, c) = {} THEN None
    ELSE LET i == Max(Positions(s, c))
         IN  Some(<<SubSeq(s, 1, i - 1), SubSeq(s, i + 1, Len(s))>>)

\* s.rsplit(c).next(): the text after the last c (the whole of s without one)
rsplit_next(s, c) ==
    IF Positions(s, c) = {} THEN s
    ELSE SubSeq(s, Max(Positions(s, c)) + 1, Len(s))

\* s.split(c).collect(): the fields between the occurrences of c
RECURSIVE split(_, _)
split(s, c) ==
    IF Positions(s, c) = {} THEN <<s>>
    ELSE LET i == Min(Positions(s, c))
         IN  <<SubSeq(s, 1, i - 1)>> \o split(SubSeq(s, i + 1, Len(s)), c)

RECURSIVE trim_end_matches(_, _)
trim_end_matches(s, c) ==
    IF Len(s) > 0 /\ s[Len(s)] = c
    THEN trim_end_matches(SubSeq(s, 1, Len(s) - 1), c)
    ELSE s

RECURSIVE trim_start_matches(_, _)
trim_start_matches(s, c) ==
    IF Len(s) > 0 /\ s[1] = c
    THEN trim_start_matches(Tail(s), c)
    ELSE s

trim_matches(s, c) == trim_end_matches(trim_start_matches(s, c), c)

\* Ord for str: byte-wise lexicographic, a proper prefix first
RECURSIVE str_lt(_, _)
str_lt(a, b) ==
    IF Len(b) = 0 THEN FALSE
    ELSE IF Len(a) = 0 THEN TRUE
    ELSE IF a[1] = b[1] THEN str_lt(Tail(a), Tail(b))
    ELSE CharCode(a[1]) < CharCode(b[1])

\* insertion of x into the sorted vector v
RECURSIVE InsertSorted(_, _)
InsertSorted(x, v) ==
    IF Len(v) = 0 THEN <<x>>
    ELSE IF str_lt(v[1], x) THEN <<v[1]>> \o InsertSorted(x, Tail(v))
    ELSE <<x>> \o v

\* Vec<String>::sort
RECURSIVE sort(_)
sort(v) == IF Len(v) = 0 THEN << >> ELSE InsertSorted(v[1], sort(Tail(v)))

\* Vec::dedup: drops every element equal to the one before it
RECURSIVE dedup(_)
dedup(v) ==
    IF Len(v) <= 1 THEN v
    ELSE IF v[1] = v[2] THEN dedup(Tail(v))
    ELSE <<v[1]>> \o dedup(Tail(v))

-----------------------------------------------------------------------------
(* String literals of the sources.                                         *)

DotWhl == <<".", "w", "h", "l">>

DotTarGz == <<".", "t", "a", "r", ".", "g", "z">>

DotZip == <<".", "z", "i", "p">>

DotRpm == <<".", "r", "p", "m">>

DotUnitypackage == <<".", "u", "n", "i", "t", "y", "p", "a", "c", "k", "a", "g", "e">>

SlashSimple == <<"/", "s", "i", "m", "p", "l", "e">>

SlashSimpleSlash == SlashSimple \o <<"/">>

SlashPackagesSlash == <<"/", "p", "a", "c", "k", "a", "g", "e", "s", "/">>

SlashCapPackagesSlash == <<"/", "P", "a", "c", "k", "a", "g", "e", "s", "/">>

SlashRepodataSlash == <<"/", "r", "e", "p", "o", "d", "a", "t", "a", "/">>

RepomdXmlPath == SlashRepodataSlash \o <<"r", "e", "p", "o", "m", "d", ".", "x", "m", "l">>

PrimaryXmlGzPath ==
    SlashRepodataSlash \o <<"p", "r", "i", "m", "a", "r", "y", ".", "x", "m", "l", ".", "g", "z">>

FilelistsXmlGzPath ==
    SlashRepodataSlash
        \o <<"f", "i", "l", "e", "l", "i", "s", "t", "s", ".", "x", "m", "l", ".", "g", "z">>

OtherXmlGzPath ==
    SlashRepodataSlash \o <<"o", "t", "h", "e", "r", ".", "x", "m", "l", ".", "g", "z">>

\* u64 values (size_bytes and their sum) are four 16-bit limbs, least
\* significant first: TLC's integers are narrower than 64 bits
LimbBase == 2^16

U64Zero == <<0, 0, 0, 0>>

U64Max == <<LimbBase - 1, LimbBase - 1, LimbBase - 1, LimbBase - 1>>

\* n as u64, for a usize n below 2^31 (data.len() as u64)
to_u64(n) == <<n % LimbBase, n \div LimbBase, 0, 0>>

\* limb i of a + b and the carry out of it, given the carry into limb i
RECURSIVE add_limbs(_, _, _, _)
add_limbs(a, b, i, carry) ==
    IF i > 4 THEN [val |-> << >>, carry |-> carry]
    ELSE LET t    == a[i] + b[i] + carry
             rest == add_limbs(a, b, i + 1, t \div LimbBase)
         IN  [val |-> <<t % LimbBase>> \o rest.val, carry |-> rest.carry]

\* a + b on u64: the wrapped sum, and whether the addition overflowed
add_u64(a, b) ==
    LET r == add_limbs(a, b, 1, 0)
    IN  [val |-> r.val, overflow |-> r.carry > 0]

-----------------------------------------------------------------------------
(* Records of the plugin interface.                                        *)

Metadata(p, v, ct, size, sha) ==
    [path |-> p, version |-> v, content_type |-> ct, size_bytes |-> size,
     checksum_sha256 |-> sha]

HttpResponse(st, hs, b) == [status |-> st, headers |-> hs, body |-> b]

\* a response body that is a fixed text with one formatted argument
TextBody(t, a) == [kind |-> "text", text |-> t, arg |-> a]

\* Vec::new() as a body
EmptyBody == [kind |-> "empty"]

\* an HTML page: its title, the argument formatted into the title, its links
HtmlBody(t, a, ls) == [kind |-> "html", title |-> t, title_arg |-> a, links |-> ls]

\* a.path.rsplit('/').next().unwrap_or(&a.path)
filename_of(p) == rsplit_next(p, "/")

-----------------------------------------------------------------------------
(* pypi-format: helpers.                                                   *)

\* the loop of normalize_package_name over lower[i..], result before trimming
RECURSIVE normalize_loop(_, _, _)
normalize_loop(lower, i, prev_was_separator) ==
    IF i > Len(lower) THEN << >>
    ELSE IF is_ascii_alphanumeric(lower[i])
         THEN <<lower[i]>> \o normalize_loop(lower, i + 1, FALSE)
         ELSE IF ~prev_was_separator
              THEN <<"-">> \o normalize_loop(lower, i + 1, TRUE)
              ELSE normalize_loop(lower, i + 1, prev_was_separator)

\* normalize_package_name without the final trim_matches('-')
normalize_package_name_untrimmed(name) ==
    normalize_loop(to_lowercase(name), 1, FALSE)

normalize_package_name(name) ==
    trim_matches(normalize_loop(to_lowercase(name), 1, FALSE), "-")

\* extract_package_name taking the first '-'-separated field of every stem
extract_package_name_first_dash(filename) ==
    IF IsSome(strip_suffix(filename, DotWhl))
    THEN Some(split(Unwrap(strip_suffix(filename, DotWhl)), "-")[1])
    ELSE IF IsSome(strip_suffix(filename, DotTarGz))
    THEN LET stem == Unwrap(strip_suffix(filename, DotTarGz))
         IN  IF contains(stem, "-") THEN Some(split(stem, "-")[1]) ELSE None
    ELSE IF IsSome(strip_suffix(filename, DotZip))
    THEN LET stem == Unwrap(strip_suffix(filename, DotZip))
         IN  IF contains(stem, "-") THEN Some(split(stem, "-")[1]) ELSE None
    ELSE None

extract_package_name(filename) ==
    IF IsSome(strip_suffix(filename, DotWhl))
    THEN Some(split(Unwrap(strip_suffix(filename, DotWhl)), "-")[1])
    ELSE IF IsSome(strip_suffix(filename, DotTarGz))
    THEN LET r == rsplit_once(Unwrap(strip_suffix(filename, DotTarGz)), "-")
         IN  IF IsSome(r) THEN Some(Unwrap(r)[1]) ELSE None
    ELSE IF IsSome(strip_suffix(filename, DotZip))
    THEN LET r == rsplit_once(Unwrap(strip_suffix(filename, DotZip)), "-")
         IN  IF IsSome(r) THEN Some(Unwrap(r)[1]) ELSE None
    ELSE None

extract_version(filename) ==
    IF IsSome(strip_suffix(filename, DotWhl))
    THEN LET parts == split(Unwrap(strip_suffix(filename, DotWhl)), "-")
         IN  IF Len(parts) >= 2 THEN Some(parts[2]) ELSE None
    ELSE IF IsSome(strip_suffix(filename, DotTarGz))
    THEN LET r == rsplit_once(Unwrap(strip_suffix(filename, DotTarGz)), "-")
         IN  IF IsSome(r) THEN Some(Unwrap(r)[2]) ELSE None
    ELSE IF IsSome(strip_suffix(filename, DotZip))
    THEN LET r == rsplit_once(Unwrap(strip_suffix(filename, DotZip)), "-")
         IN  IF IsSome(r) THEN Some(Unwrap(r)[2]) ELSE None
    ELSE None

\* the filter_map of generate_index and handle_simple_root: the normalized
\* names of the artifacts whose filename yields a package name, in list order
RECURSIVE package_names(_)
package_names(as) ==
    IF Len(as) = 0 THEN << >>
    ELSE LET n == extract_package_name(rsplit_next(as[1].path, "/"))
         IN  (IF IsSome(n) THEN <<normalize_package_name(Unwrap(n))>> ELSE << >>)
                 \o package_names(Tail(as))

\* artifacts.iter().map(|a| a.size_bytes).sum::<u64>(): the wrapped sum of
\* as[i..], starting from acc, and whether some addition overflowed
RECURSIVE sum_size_bytes(_, _, _)
sum_size_bytes(as, i, acc) ==
    IF i > Len(as) THEN [val |-> acc, overflow |-> FALSE]
    ELSE LET step == add_u64(acc, as[i].size_bytes)
             rest == sum_size_bytes(as, i + 1, step.val)
         IN  [val |-> rest.val, overflow |-> step.overflow \/ rest.overflow]

\* the JSON catalog every generate_index builds; an absent key is None
JsonIndex(format, as, entries) ==
    [kind |-> "json", format |-> format, total_count |-> Len(as),
     total_size_bytes |-> sum_size_bytes(as, 1, U64Zero).val, packages |-> entries]

\* the outcome of a generate_index that built docs: u64 addition overflowing
\* panics in a build with overflow checks and wraps in one without
index_outcome(as, docs, checks) ==
    IF sum_size_bytes(as, 1, U64Zero).overflow /\ checks THEN Panic ELSE Ok(Some(docs))

-----------------------------------------------------------------------------
(* pypi-format: the handler.                                               *)

\* pypi_parse_metadata refusing an empty path
pypi_parse_metadata_checks_path(p, d) ==
    IF is_empty(d) \/ is_empty(p) THEN Err("Empty file", << >>)
    ELSE LET filename == rsplit_next(p, "/")
             content_type ==
                 IF ends_with(filename, DotWhl) \/ ends_with(filename, DotZip)
                 THEN "application/zip"
                 ELSE IF ends_with(filename, DotTarGz)
                 THEN "application/gzip"
                 ELSE "application/octet-stream"
         IN  Ok(Metadata(p, extract_version(filename), content_type, to_u64(Len(d)), None))

pypi_parse_metadata(p, d) ==
    IF is_empty(d) THEN Err("Empty file", << >>)
    ELSE LET filename == rsplit_next(p, "/")
             content_type ==
                 IF ends_with(filename, DotWhl) \/ ends_with(filename, DotZip)
                 THEN "application/zip"
                 ELSE IF ends_with(filename, DotTarGz)
                 THEN "application/gzip"
                 ELSE "application/octet-stream"
         IN  Ok(Metadata(p, extract_version(filename), content_type, to_u64(Len(d)), None))

\* pypi_validate without the check of the source distribution stem
pypi_validate_no_sdist_check(p, d) ==
    IF is_empty(d) THEN Err("Python package cannot be empty", << >>)
    ELSE IF is_empty(p) THEN Err("Artifact path cannot be empty", << >>)
    ELSE LET filename   == rsplit_next(p, "/")
             lower      == to_lowercase(filename)
             whl_stem   == strip_suffix(lower, DotWhl)
         IN  IF /\ ~ends_with(lower, DotWhl)
                /\ ~ends_with(lower, DotTarGz)
                /\ ~ends_with(lower, DotZip)
             THEN Err("Expected .whl, .tar.gz, or .zip extension, got: {filename}", filename)
             ELSE IF IsSome(whl_stem) /\ Len(split(Unwrap(whl_stem), "-")) < 5
             THEN Err("Invalid wheel filename: expected at least 5 dash-separated parts",
                      filename)
             ELSE Ok(<< >>)

pypi_validate(p, d) ==
    IF is_empty(d) THEN Err("Python package cannot be empty", << >>)
    ELSE IF is_empty(p) THEN Err("Artifact path cannot be empty", << >>)
    ELSE LET filename   == rsplit_next(p, "/")
             lower      == to_lowercase(filename)
             whl_stem   == strip_suffix(lower, DotWhl)
             sdist_stem == IF IsSome(strip_suffix(lower, DotTarGz))
                           THEN strip_suffix(lower, DotTarGz)
                           ELSE strip_suffix(lower, DotZip)
         IN  IF /\ ~ends_with(lower, DotWhl)
                /\ ~ends_with(lower, DotTarGz)
                /\ ~ends_with(lower, DotZip)
             THEN Err("Expected .whl, .tar.gz, or .zip extension, got: {filename}", filename)
             ELSE IF IsSome(whl_stem) /\ Len(split(Unwrap(whl_stem), "-")) < 5
             THEN Err("Invalid wheel filename: expected at least 5 dash-separated parts",
                      filename)
             ELSE IF IsSome(sdist_stem) /\ ~contains(Unwrap(sdist_stem), "-")
             THEN Err("Invalid source distribution filename: expected 'name-version' format",
                      Unwrap(sdist_stem))
             ELSE Ok(<< >>)

\* one link of an HTML page
Link(href, text) == [href |-> href, text |-> text]

\* the entries of pypi-index.json, one per artifact, in list order
pypi_json_entries(as) ==
    [i \in DOMAIN as |->
        LET filename == filename_of(as[i].path)
            n        == extract_package_name(filename)
        IN  [path |-> as[i].path,
             name |-> IF IsSome(n) THEN normalize_package_name(Unwrap(n)) ELSE << >>,
             version |-> as[i].version,
             content_type |-> as[i].content_type,
             size_bytes |-> as[i].size_bytes]]

\* pypi_generate_index without packages.sort()
pypi_generate_index_unsorted(as, checks) ==
    IF is_empty(as) THEN Ok(None)
    ELSE LET packages == dedup(package_names(as))
             html == HtmlBody("Simple Index", << >>,
                        [i \in DOMAIN packages |->
                            Link(SlashSimpleSlash \o packages[i] \o <<"/">>, packages[i])])
             json_index == JsonIndex("pypi-custom", as, pypi_json_entries(as))
         IN  index_outcome(as, << <<"simple/index.html", html>>,
                                  <<"pypi-index.json", json_index>> >>, checks)

pypi_generate_index(as, checks) ==
    IF is_empty(as) THEN Ok(None)
    ELSE LET packages == dedup(sort(package_names(as)))
             html == HtmlBody("Simple Index", << >>,
                        [i \in DOMAIN packages |->
                            Link(SlashSimpleSlash \o packages[i] \o <<"/">>, packages[i])])
             json_index == JsonIndex("pypi-custom", as, pypi_json_entries(as))
         IN  index_outcome(as, << <<"simple/index.html", html>>,
                                  <<"pypi-index.json", json_index>> >>, checks)

\* handle_simple_root without packages.dedup()
handle_simple_root_no_dedup(ctx, as) ==
    LET packages == sort(package_names(as))
    IN  Ok(HttpResponse(200, << <<"content-type", "text/html">> >>,
            HtmlBody("Simple Index", << >>,
                [i \in DOMAIN packages |->
                    Link(ctx.base_url \o SlashSimpleSlash \o packages[i] \o <<"/">>,
                         packages[i])])))

handle_simple_root(ctx, as) ==
    LET packages == dedup(sort(package_names(as)))
    IN  Ok(HttpResponse(200, << <<"content-type", "text/html">> >>,
            HtmlBody("Simple Index", << >>,
                [i \in DOMAIN packages |->
                    Link(ctx.base_url \o SlashSimpleSlash \o packages[i] \o <<"/">>,
                         packages[i])])))

\* matching_artifacts comparing the raw package name with the normalized project
RECURSIVE matching_artifacts_raw(_, _, _)
matching_artifacts_raw(as, i, normalized_project) ==
    IF i > Len(as) THEN << >>
    ELSE LET n == extract_package_name(filename_of(as[i].path))
         IN  (IF IsSome(n) /\ Unwrap(n) = normalized_project
              THEN <<as[i]>> ELSE << >>)
                 \o matching_artifacts_raw(as, i + 1, normalized_project)

\* the filter of handle_simple_project: the artifacts of as[i..] whose
\* normalized package name equals normalized_project, in list order
RECURSIVE matching_artifacts(_, _, _)
matching_artifacts(as, i, normalized_project) ==
    IF i > Len(as) THEN << >>
    ELSE LET n == extract_package_name(filename_of(as[i].path))
         IN  (IF IsSome(n) /\ normalize_package_name(Unwrap(n)) = normalized_project
              THEN <<as[i]>> ELSE << >>)
                 \o matching_artifacts(as, i + 1, normalized_project)

\* handle_simple_project comparing with the project as it was requested
handle_simple_project_unnormalized(project, ctx, as) ==
    LET normalized_project == project
        matching == matching_artifacts(as, 1, normalized_project)
    IN  IF is_empty(matching)
        THEN Ok(HttpResponse(404, << <<"content-type", "text/plain">> >>,
                    TextBody("Project '{}' not found", project)))
        ELSE Ok(HttpResponse(200, << <<"content-type", "text/html">> >>,
                HtmlBody("Links for {}", normalized_project,
                    [i \in DOMAIN matching |->
                        LET filename == filename_of(matching[i].path)
                            sha == matching[i].checksum_sha256
                            hash_fragment ==
                                IF IsSome(sha) /\ ~is_empty(Unwrap(sha))
                                THEN <<"#", "s", "h", "a", "2", "5", "6", "=">> \o Unwrap(sha)
                                ELSE << >>
                        IN  Link(ctx.base_url \o SlashPackagesSlash \o filename
                                     \o hash_fragment, filename)])))

handle_simple_project(project, ctx, as) ==
    LET normalized_project == normalize_package_name(project)
        matching == matching_artifacts(as, 1, normalized_project)
    IN  IF is_empty(matching)
        THEN Ok(HttpResponse(404, << <<"content-type", "text/plain">> >>,
                    TextBody("Project '{}' not found", project)))
        ELSE Ok(HttpResponse(200, << <<"content-type", "text/html">> >>,
                HtmlBody("Links for {}", normalized_project,
                    [i \in DOMAIN matching |->
                        LET filename == filename_of(matching[i].path)
                            sha == matching[i].checksum_sha256
                            hash_fragment ==
                                IF IsSome(sha) /\ ~is_empty(Unwrap(sha))
                                THEN <<"#", "s", "h", "a", "2", "5", "6", "=">> \o Unwrap(sha)
                                ELSE << >>
                        IN  Link(ctx.base_url \o SlashPackagesSlash \o filename
                                     \o hash_fragment, filename)])))

\* find_by_filename matching every path that ends with the filename
find_by_suffix(as, filename) ==
    LET hits == {i \in DOMAIN as : ends_with(as[i].path, filename)}
    IN  IF hits = {} THEN None ELSE Some(as[Min(hits)])

\* artifacts.iter().find(..): the first artifact whose filename is the one asked for
find_by_filename(as, filename) ==
    LET hits == {i \in DOMAIN as : filename_of(as[i].path) = filename}
    IN  IF hits = {} THEN None ELSE Some(as[Min(hits)])

pypi_handle_package_download(filename, ctx, as) ==
    LET artifact == find_by_filename(as, filename)
    IN  IF IsSome(artifact)
        THEN Ok(HttpResponse(302,
                 << <<"location", ctx.download_base_url \o <<"/">> \o Unwrap(artifact).path>> >>,
                 EmptyBody))
        ELSE Ok(HttpResponse(404, << <<"content-type", "text/plain">> >>,
                 TextBody("Package '{}' not found", filename)))

MethodNotAllowed ==
    Ok(HttpResponse(405, << <<"allow", "GET, HEAD">> >>, TextBody("Method Not Allowed", << >>)))

NotFound ==
    Ok(HttpResponse(404, << <<"content-type", "text/plain">> >>, TextBody("Not Found", << >>)))

\* pypi_handle_request with the root index routed before the method check
pypi_handle_request_routes_first(req, ctx, as) ==
    LET p        == req.path
        trimmed  == trim_end_matches(p, "/")
        project  == strip_prefix(trimmed, SlashSimpleSlash)
        filename == strip_prefix(trimmed, SlashPackagesSlash)
    IN  IF p = SlashSimpleSlash \/ p = SlashSimple \/ p = <<"/">>
        THEN handle_simple_root(ctx, as)
        ELSE IF req.method # "GET" /\ req.method # "HEAD" THEN MethodNotAllowed
        ELSE IF IsSome(project) /\ ~contains(Unwrap(project), "/") /\ ~is_empty(Unwrap(project))
        THEN handle_simple_project(Unwrap(project), ctx, as)
        ELSE IF IsSome(filename) /\ ~contains(Unwrap(filename), "/")
                    /\ ~is_empty(Unwrap(filename))
        THEN pypi_handle_package_download(Unwrap(filename), ctx, as)
        ELSE NotFound

pypi_handle_request(req, ctx, as) ==
    LET p        == req.path
        trimmed  == trim_end_matches(p, "/")
        project  == strip_prefix(trimmed, SlashSimpleSlash)
        filename == strip_prefix(trimmed, SlashPackagesSlash)
    IN  IF req.method # "GET" /\ req.method # "HEAD" THEN MethodNotAllowed
        ELSE IF p = SlashSimpleSlash \/ p = SlashSimple \/ p = <<"/">>
        THEN handle_simple_root(ctx, as)
        ELSE IF IsSome(project) /\ ~contains(Unwrap(project), "/") /\ ~is_empty(Unwrap(project))
        THEN handle_simple_project(Unwrap(project), ctx, as)
        ELSE IF IsSome(filename) /\ ~contains(Unwrap(filename), "/")
                    /\ ~is_empty(Unwrap(filename))
        THEN pypi_handle_package_download(Unwrap(filename), ctx, as)
        ELSE NotFound

-----------------------------------------------------------------------------
(* rpm-format: helpers.                                                    *)

RPM_MAGIC == <<237, 171, 238, 219>>

RPM_LEAD_SIZE == 96

RpmFileInfo(n, v, r, a) == [name |-> n, version |-> v, release |-> r, arch |-> a]

\* parse_rpm_filename splitting name, version and release at the first two '-'
parse_rpm_filename_left_to_right(filename) ==
    IF ~IsSome(strip_suffix(filename, DotRpm)) THEN RpmFileInfo(None, None, None, None)
    ELSE LET stem == Unwrap(strip_suffix(filename, DotRpm))
             arch_split == rsplit_once(stem, ".")
             before_arch == IF IsSome(arch_split) THEN Unwrap(arch_split)[1] ELSE stem
             arch == IF IsSome(arch_split) THEN Some(Unwrap(arch_split)[2]) ELSE None
             fields == split(before_arch, "-")
         IN  IF Len(fields) = 1 THEN RpmFileInfo(Some(before_arch), None, None, arch)
             ELSE IF Len(fields) = 2
             THEN RpmFileInfo(Some(fields[1]), None, Some(fields[2]), arch)
             ELSE RpmFileInfo(Some(fields[1]), Some(fields[2]),
                      Some(SubSeq(before_arch, Len(fields[1]) + Len(fields[2]) + 3,
                                  Len(before_arch))), arch)

\* parse_rpm_filename taking the version at the last '-' and the release at
\* the one before it
parse_rpm_filename_version_first(filename) ==
    IF ~IsSome(strip_suffix(filename, DotRpm)) THEN RpmFileInfo(None, None, None, None)
    ELSE LET stem == Unwrap(strip_suffix(filename, DotRpm))
             arch_split == rsplit_once(stem, ".")
             before_arch == IF IsSome(arch_split) THEN Unwrap(arch_split)[1] ELSE stem
             arch == IF IsSome(arch_split) THEN Some(Unwrap(arch_split)[2]) ELSE None
             version_split == rsplit_once(before_arch, "-")
             before_version ==
                 IF IsSome(version_split) THEN Unwrap(version_split)[1] ELSE before_arch
             version == IF IsSome(version_split) THEN Some(Unwrap(version_split)[2]) ELSE None
             release_split == rsplit_once(before_version, "-")
             name == IF IsSome(release_split)
                     THEN Some(Unwrap(release_split)[1]) ELSE Some(before_version)
             release == IF IsSome(release_split) THEN Some(Unwrap(release_split)[2]) ELSE None
         IN  RpmFileInfo(name, version, release, arch)

parse_rpm_filename(filename) ==
    IF ~IsSome(strip_suffix(filename, DotRpm)) THEN RpmFileInfo(None, None, None, None)
    ELSE LET stem == Unwrap(strip_suffix(filename, DotRpm))
             arch_split == rsplit_once(stem, ".")
             before_arch == IF IsSome(arch_split) THEN Unwrap(arch_split)[1] ELSE stem
             arch == IF IsSome(arch_split) THEN Some(Unwrap(arch_split)[2]) ELSE None
             release_split == rsplit_once(before_arch, "-")
             before_release ==
                 IF IsSome(release_split) THEN Unwrap(release_split)[1] ELSE before_arch
             release == IF IsSome(release_split) THEN Some(Unwrap(release_split)[2]) ELSE None
             version_split == rsplit_once(before_release, "-")
             name == IF IsSome(version_split)
                     THEN Some(Unwrap(version_split)[1]) ELSE Some(before_release)
             version == IF IsSome(version_split) THEN Some(Unwrap(version_split)[2]) ELSE None
         IN  RpmFileInfo(name, version, release, arch)

\* extract_version_from_rpm_filename parsing the whole path, directories included
extract_version_from_rpm_path(p) ==
    LET info == parse_rpm_filename(p)
    IN  IF IsSome(info.version) /\ IsSome(info.release)
        THEN Some(Unwrap(info.version) \o <<"-">> \o Unwrap(info.release))
        ELSE IF IsSome(info.version) THEN info.version
        ELSE None

extract_version_from_rpm_filename(p) ==
    LET info == parse_rpm_filename(rsplit_next(p, "/"))
    IN  IF IsSome(info.version) /\ IsSome(info.release)
        THEN Some(Unwrap(info.version) \o <<"-">> \o Unwrap(info.release))
        ELSE IF IsSome(info.version) THEN info.version
        ELSE None

\* str::replace of one character by a string
RECURSIVE replace(_, _, _)
replace(s, c, rep) ==
    IF Len(s) = 0 THEN << >>
    ELSE (IF s[1] = c THEN rep ELSE <<s[1]>>) \o replace(Tail(s), c, rep)

\* xml_escape replacing '&' after the other characters
xml_escape_ampersand_last(s) ==
    replace(replace(replace(replace(replace(s,
        "<", <<"&", "l", "t", ";">>),
        ">", <<"&", "g", "t", ";">>),
        "\"", <<"&", "q", "u", "o", "t", ";">>),
        "'", <<"&", "a", "p", "o", "s", ";">>),
        "&", <<"&", "a", "m", "p", ";">>)

xml_escape(s) ==
    replace(replace(replace(replace(replace(s,
        "&", <<"&", "a", "m", "p", ";">>),
        "<", <<"&", "l", "t", ";">>),
        ">", <<"&", "g", "t", ";">>),
        "\"", <<"&", "q", "u", "o", "t", ";">>),
        "'", <<"&", "a", "p", "o", "s", ";">>)

\* the body a handler returns for gzip_compress(xml.as_bytes())?: gzip_compress
\* returns Ok for every input, so the ? never returns early
gzip_body(xml) == [kind |-> "gzip", xml |-> xml]

unwrap_or(o, default) == IF IsSome(o) THEN Unwrap(o) ELSE default

-----------------------------------------------------------------------------
(* rpm-format: the handler.                                                *)

\* rpm_parse_metadata classifying by the extension of the path
rpm_parse_metadata_by_extension(p, d) ==
    IF is_empty(d) THEN Err("Empty file", << >>)
    ELSE LET content_type == IF ends_with(p, DotRpm) THEN "application/x-rpm"
                             ELSE "application/octet-stream"
         IN  Ok(Metadata(p, extract_version_from_rpm_filename(p), content_type,
                         to_u64(Len(d)), None))

rpm_parse_metadata(p, d) ==
    IF is_empty(d) THEN Err("Empty file", << >>)
    ELSE LET has_rpm_magic == Len(d) >= 4 /\ SubSeq(d, 1, 4) = RPM_MAGIC
             content_type == IF has_rpm_magic THEN "application/x-rpm"
                             ELSE "application/octet-stream"
         IN  Ok(Metadata(p, extract_version_from_rpm_filename(p), content_type,
                         to_u64(Len(d)), None))

\* rpm_validate checking the lead before the extension
rpm_validate_lead_first(p, d) ==
    IF is_empty(d) THEN Err("RPM package cannot be empty", << >>)
    ELSE IF is_empty(p) THEN Err("Artifact path cannot be empty", << >>)
    ELSE IF Len(d) < RPM_LEAD_SIZE
    THEN Err("File too small for RPM lead: {} bytes (minimum {})", Len(d))
    ELSE IF SubSeq(d, 1, 4) # RPM_MAGIC
    THEN Err("Invalid RPM magic: expected [ed, ab, ee, db], got [..]", SubSeq(d, 1, 4))
    ELSE IF ~ends_with(to_lowercase(p), DotRpm)
    THEN Err("Expected .rpm extension, got: {}", filename_of(p))
    ELSE Ok(<< >>)

\* rpm_validate comparing the extension with its case kept
rpm_validate_case_sensitive(p, d) ==
    IF is_empty(d) THEN Err("RPM package cannot be empty", << >>)
    ELSE IF is_empty(p) THEN Err("Artifact path cannot be empty", << >>)
    ELSE IF ~ends_with(p, DotRpm)
    THEN Err("Expected .rpm extension, got: {}", filename_of(p))
    ELSE IF Len(d) < RPM_LEAD_SIZE
    THEN Err("File too small for RPM lead: {} bytes (minimum {})", Len(d))
    ELSE IF SubSeq(d, 1, 4) # RPM_MAGIC
    THEN Err("Invalid RPM magic: expected [ed, ab, ee, db], got [..]", SubSeq(d, 1, 4))
    ELSE Ok(<< >>)

rpm_validate(p, d) ==
    IF is_empty(d) THEN Err("RPM package cannot be empty", << >>)
    ELSE IF is_empty(p) THEN Err("Artifact path cannot be empty", << >>)
    ELSE IF ~ends_with(to_lowercase(p), DotRpm)
    THEN Err("Expected .rpm extension, got: {}", filename_of(p))
    ELSE IF Len(d) < RPM_LEAD_SIZE
    THEN Err("File too small for RPM lead: {} bytes (minimum {})", Len(d))
    ELSE IF SubSeq(d, 1, 4) # RPM_MAGIC
    THEN Err("Invalid RPM magic: expected [ed, ab, ee, db], got [..]", SubSeq(d, 1, 4))
    ELSE Ok(<< >>)

\* the entries of rpm-index.json, one per artifact, in list order
rpm_json_entries(as) ==
    [i \in DOMAIN as |->
        LET info == parse_rpm_filename(filename_of(as[i].path))
        IN  [path |-> as[i].path, version |-> as[i].version, name |-> info.name,
             arch |-> info.arch, release |-> info.release,
             size_bytes |-> as[i].size_bytes]]

rpm_generate_index(as, checks) ==
    IF is_empty(as) THEN Ok(None)
    ELSE index_outcome(as,
             << <<"rpm-index.json", JsonIndex("rpm-custom", as, rpm_json_entries(as))>> >>,
             checks)

handle_repomd_xml(ctx, as) ==
    Ok(HttpResponse(200, << <<"content-type", "application/xml">> >>,
        [kind |-> "xml", root |-> "repomd",
         data |-> << <<"primary", "repodata/primary.xml.gz">>,
                     <<"filelists", "repodata/filelists.xml.gz">>,
                     <<"other", "repodata/other.xml.gz">> >>]))

\* the <package> element handle_primary_xml_gz writes for one artifact
primary_package(artifact) ==
    LET filename == filename_of(artifact.path)
        info     == parse_rpm_filename(filename)
        name     == unwrap_or(info.name, <<"u", "n", "k", "n", "o", "w", "n">>)
        version  == unwrap_or(info.version, <<"0">>)
        release  == unwrap_or(info.release, <<"0">>)
        arch     == unwrap_or(info.arch, <<"x", "8", "6", "_", "6", "4">>)
    IN  [name |-> xml_escape(name), arch |-> xml_escape(arch),
         ver |-> xml_escape(version), rel |-> xml_escape(release),
         checksum |-> unwrap_or(artifact.checksum_sha256, << >>),
         size |-> artifact.size_bytes,
         location |-> <<"p", "a", "c", "k", "a", "g", "e", "s", "/">> \o xml_escape(filename),
         provides |-> << [name |-> xml_escape(name), ver |-> xml_escape(version),
                          rel |-> xml_escape(release)] >>]

\* handle_primary_xml_gz returning an error for an empty repository
handle_primary_xml_gz_fallible(ctx, as) ==
    IF is_empty(as) THEN Err("no packages", << >>)
    ELSE Ok(HttpResponse(200, << <<"content-type", "application/gzip">> >>,
            gzip_body([kind |-> "xml", root |-> "metadata", packages |-> Len(as),
                       entries |-> [i \in DOMAIN as |-> primary_package(as[i])]])))

handle_primary_xml_gz(ctx, as) ==
    Ok(HttpResponse(200, << <<"content-type", "application/gzip">> >>,
        gzip_body([kind |-> "xml", root |-> "metadata", packages |-> Len(as),
                   entries |-> [i \in DOMAIN as |-> primary_package(as[i])]])))

handle_filelists_xml_gz ==
    Ok(HttpResponse(200, << <<"content-type", "application/gzip">> >>,
        gzip_body([kind |-> "xml", root |-> "filelists", packages |-> 0, entries |-> << >>])))

handle_other_xml_gz ==
    Ok(HttpResponse(200, << <<"content-type", "application/gzip">> >>,
        gzip_body([kind |-> "xml", root |-> "otherdata", packages |-> 0, entries |-> << >>])))

rpm_handle_package_download(filename, ctx, as) ==
    LET artifact == find_by_filename(as, filename)
    IN  IF IsSome(artifact)
        THEN Ok(HttpResponse(302,
                 << <<"location", ctx.download_base_url \o <<"/">> \o Unwrap(artifact).path>> >>,
                 EmptyBody))
        ELSE Ok(HttpResponse(404, << <<"content-type", "text/plain">> >>,
                 TextBody("Package '{}' not found", filename)))

rpm_handle_request(req, ctx, as) ==
    LET trimmed  == trim_end_matches(req.path, "/")
        filename == IF IsSome(strip_prefix(trimmed, SlashPackagesSlash))
                    THEN strip_prefix(trimmed, SlashPackagesSlash)
                    ELSE strip_prefix(trimmed, SlashCapPackagesSlash)
    IN  IF req.method # "GET" /\ req.method # "HEAD" THEN MethodNotAllowed
        ELSE IF trimmed = RepomdXmlPath THEN handle_repomd_xml(ctx, as)
        ELSE IF trimmed = PrimaryXmlGzPath THEN handle_primary_xml_gz(ctx, as)
        ELSE IF trimmed = FilelistsXmlGzPath THEN handle_filelists_xml_gz
        ELSE IF trimmed = OtherXmlGzPath THEN handle_other_xml_gz
        ELSE IF IsSome(filename) /\ ~contains(Unwrap(filename), "/")
                    /\ ~is_empty(Unwrap(filename))
        THEN rpm_handle_package_download(Unwrap(filename), ctx, as)
        ELSE NotFound

-----------------------------------------------------------------------------
(* unity-format.                                                           *)

is_semver_like(s0) ==
    LET s == IF Len(s0) > 0 /\ s0[1] = "v" THEN Tail(s0) ELSE s0
    IN  IF ~(Len(s) > 0 /\ is_ascii_digit(s[1])) \/ ~contains(s, ".") THEN FALSE
        ELSE \A i \in DOMAIN s :
                \/ is_ascii_digit(s[i])
                \/ s[i] = "."
                \/ s[i] = "-"
                \/ is_ascii_alphabetic(s[i])

\* extract_version_from_path with the filename tried before the segments
extract_version_from_path_filename_first(p) ==
    LET parts == split(p, "/")
        semver_parts == {i \in DOMAIN parts : is_semver_like(parts[i])}
        filename == rsplit_next(p, "/")
        stem == IF IsSome(strip_suffix(filename, DotUnitypackage))
                THEN strip_suffix(filename, DotUnitypackage)
                ELSE IF IsSome(rsplit_once(filename, "."))
                THEN Some(Unwrap(rsplit_once(filename, "."))[1])
                ELSE None
        cands == IF ~IsSome(stem) THEN {}
                 ELSE {i \in Positions(Unwrap(stem), "-") :
                          LET candidate == SubSeq(Unwrap(stem), i + 1, Len(Unwrap(stem)))
                          IN  /\ Len(candidate) > 0
                              /\ is_ascii_digit(candidate[1])
                              /\ is_semver_like(candidate)}
    IN  IF cands # {}
        THEN Some(SubSeq(Unwrap(stem), Min(cands) + 1, Len(Unwrap(stem))))
        ELSE IF semver_parts # {} THEN Some(parts[Max(semver_parts)])
        ELSE None

extract_version_from_path(p) ==
    LET parts == split(p, "/")
        semver_parts == {i \in DOMAIN parts : is_semver_like(parts[i])}
        filename == rsplit_next(p, "/")
        stem == IF IsSome(strip_suffix(filename, DotUnitypackage))
                THEN strip_suffix(filename, DotUnitypackage)
                ELSE IF IsSome(rsplit_once(filename, "."))
                THEN Some(Unwrap(rsplit_once(filename, "."))[1])
                ELSE None
    IN  IF semver_parts # {} THEN Some(parts[Max(semver_parts)])
        ELSE IF ~IsSome(stem) THEN None
        ELSE LET st == Unwrap(stem)
                 cands == {i \in Positions(st, "-") :
                              LET candidate == SubSeq(st, i + 1, Len(st))
                              IN  /\ Len(candidate) > 0
                                  /\ is_ascii_digit(candidate[1])
                                  /\ is_semver_like(candidate)}
             IN  IF cands # {} THEN Some(SubSeq(st, Min(cands) + 1, Len(st))) ELSE None

unity_parse_metadata(p, d) ==
    IF is_empty(d) THEN Err("Empty file", << >>)
    ELSE LET is_gzip == Len(d) >= 2 /\ d[1] = 31 /\ d[2] = 139
             content_type == IF is_gzip THEN "application/gzip"
                             ELSE "application/octet-stream"
         IN  Ok(Metadata(p, extract_version_from_path(p), content_type, to_u64(Len(d)), None))

\* unity_validate without the check of the compression method byte
unity_validate_no_method_check(p, d) ==
    IF is_empty(d) THEN Err("Unity package cannot be empty", << >>)
    ELSE IF is_empty(p) THEN Err("Artifact path cannot be empty", << >>)
    ELSE IF ~ends_with(to_lowercase(p), DotUnitypackage)
    THEN Err("Expected .unitypackage extension, got: {}", filename_of(p))
    ELSE IF Len(d) < 2
    THEN Err("File too small to be a valid gzip archive", << >>)
    ELSE IF d[1] # 31 \/ d[2] # 139
    THEN Err("Invalid gzip header: expected [1f, 8b], got [..]", SubSeq(d, 1, 2))
    ELSE Ok(<< >>)

unity_validate(p, d) ==
    IF is_empty(d) THEN Err("Unity package cannot be empty", << >>)
    ELSE IF is_empty(p) THEN Err("Artifact path cannot be empty", << >>)
    ELSE IF ~ends_with(to_lowercase(p), DotUnitypackage)
    THEN Err("Expected .unitypackage extension, got: {}", filename_of(p))
    ELSE IF Len(d) < 2
    THEN Err("File too small to be a valid gzip archive", << >>)
    ELSE IF d[1] # 31 \/ d[2] # 139
    THEN Err("Invalid gzip header: expected [1f, 8b], got [..]", SubSeq(d, 1, 2))
    ELSE IF Len(d) >= 3 /\ d[3] # 8
    THEN Err("Unsupported gzip compression method: {:02x} (expected 08/deflate)", d[3])
    ELSE Ok(<< >>)

\* the entries of unity-index.json, one per artifact, in list order
unity_json_entries(as) ==
    [i \in DOMAIN as |->
        [path |-> as[i].path, version |-> as[i].version,
         size_bytes |-> as[i].size_bytes, content_type |-> as[i].content_type]]

unity_generate_index(as, checks) ==
    IF is_empty(as) THEN Ok(None)
    ELSE index_outcome(as,
             << <<"unity-index.json", JsonIndex("unity", as, unity_json_entries(as))>> >>,
             checks)

-----------------------------------------------------------------------------
(* The Guest interface: the loaded plugin's implementation is the one called. *)

parse_metadata(pl, p, d) ==
    CASE pl = "pypi"  -> pypi_parse_metadata(p, d)
      [] pl = "rpm"   -> rpm_parse_metadata(p, d)
      [] pl = "unity" -> unity_parse_metadata(p, d)

-----------------------------------------------------------------------------
(* The inputs the host passes.                                             *)

\* all sequences over S of length at most n
RECURSIVE SeqsUpTo(_, _)
SeqsUpTo(S, n) ==
    IF n = 0 THEN {<< >>}
    ELSE LET shorter == SeqsUpTo(S, n - 1)
         IN  shorter \cup {Append(s, x) : s \in shorter, x \in S}

\* a buffer of n zero bytes
Zeros(n) == [i \in 1..n |-> 0]

\* uploaded paths: a directory, a stem, an extension
UploadDirs == {<< >>, <<"d", "/">>}

StemChars == {"a", "-"}

UploadExtensions ==
    {<< >>, DotWhl, <<".", "W", "H", "L">>, DotTarGz, <<".", "T", "a", "r", ".", "G", "z">>,
     DotZip, DotRpm, <<".", "R", "P", "M">>, DotUnitypackage,
     <<".", "U", "n", "i", "t", "y", "P", "a", "c", "k", "a", "g", "e">>,
     <<".", "t", "x", "t">>}

UploadPaths ==
    {d \o s \o e : d \in UploadDirs, s \in SeqsUpTo(StemChars, MaxStemLen),
                   e \in UploadExtensions}

\* uploaded bytes: nothing, or a signature followed by zero bytes
DataHeads ==
    {<<0>>, <<31>>, <<31, 0>>, <<31, 139>>, <<31, 139, 8>>, <<31, 139, 0>>,
     RPM_MAGIC, <<237, 171, 238, 0>>, <<80, 75, 3, 4>>}

PadLens == {0, RPM_LEAD_SIZE - 5, RPM_LEAD_SIZE - 4}

UploadData == {<< >>} \cup {h \o Zeros(n) : h \in DataHeads, n \in PadLens}

\* the Metadata the host keeps for an upload of one byte to path p with plugin
\* pl: what parse_metadata returned, with the size and checksum the host knows
HostArtifact(pl, p, size, sha) ==
    [parse_metadata(pl, p, <<0>>).val EXCEPT !.size_bytes = size, !.checksum_sha256 = sha]

\* the artifacts of the repository handle_request is asked about
RequestArtifacts(pl) ==
    {HostArtifact(pl, <<"a", "-", "1", ".", "t", "a", "r", ".", "g", "z">>,
                  to_u64(1), Some(<<"c">>)),
     HostArtifact(pl, <<"d", "/", "a", "-", "1", ".", "t", "a", "r", ".", "g", "z">>,
                  to_u64(2), None),
     HostArtifact(pl, <<"A", "-", "2", ".", "w", "h", "l">>, to_u64(3), Some(<< >>)),
     HostArtifact(pl, <<"b", "_", "c", "-", "1", ".", "z", "i", "p">>, to_u64(4), None),
     HostArtifact(pl, <<"n", "-", "1", "-", "2", ".", "x", ".", "r", "p", "m">>,
                  to_u64(5), Some(<<"c">>)),
     HostArtifact(pl, <<"-", "1", ".", "z", "i", "p">>, to_u64(6), None),
     HostArtifact(pl, <<"<", "&", "-", "1">> \o DotRpm, to_u64(7), None)}

Contexts ==
    {[repo_key |-> "r", base_url |-> <<"/", "e">>, download_base_url |-> <<"/", "d", "l">>],
     [repo_key |-> "s", base_url |-> << >>, download_base_url |-> <<"h", ":", "/", "/", "s">>]}

Methods == {"GET", "HEAD", "POST", "get"}

Projects == {<<"a">>, <<"A">>, <<"b", ".", "c">>, <<"B", "-", "_", "C">>, <<"q">>, <<"_">>,
             <<"-", ".">>, <<"a", "/", "x">>}

RequestedFilenames ==
    {filename_of(a.path) : a \in RequestArtifacts("pypi")}
        \cup {<<"z", "z">>, << >>, <<"d", "/", "a", "-", "1", ".", "t", "a", "r", ".", "g", "z">>,
              <<"a", "-", "1", ".", "t", "a", "r", ".", "g", "z", "/">>}

RequestPaths ==
    {<< >>, <<"/">>, SlashSimple, SlashSimpleSlash, <<"/", "o">>,
     RepomdXmlPath, PrimaryXmlGzPath, FilelistsXmlGzPath, OtherXmlGzPath,
     RepomdXmlPath \o <<"/">>}
        \cup {SlashSimpleSlash \o pr \o t : pr \in Projects, t \in {<< >>, <<"/">>}}
        \cup {pre \o f : pre \in {SlashPackagesSlash, SlashCapPackagesSlash},
                         f \in RequestedFilenames}

\* query, headers and body of a request: none, or some
RequestExtras ==
    {[query |-> << >>, headers |-> << >>, body |-> << >>],
     [query |-> <<"x", "=", "1">>, headers |-> << <<"accept", "*/*">> >>, body |-> <<0>>]}

Requests ==
    {[method |-> m, path |-> p, query |-> x.query, headers |-> x.headers, body |-> x.body] :
        m \in Methods, p \in RequestPaths, x \in RequestExtras}

\* the artifacts generate_index is asked to catalog
IndexArtifacts(pl) ==
    {HostArtifact(pl, <<"b", "-", "1", ".", "t", "a", "r", ".", "g", "z">>, to_u64(1), None),
     HostArtifact(pl, <<"d", "/", "B", "-", "2", ".", "z", "i", "p">>, to_u64(2), None),
     HostArtifact(pl, <<"a", "-", "1", ".", "w", "h", "l">>, to_u64(3), None),
     HostArtifact(pl, <<"x", ".", "t", "x", "t">>, to_u64(4), None),
     HostArtifact(pl, <<"n", "-", "1", "-", "2", ".", "x", ".", "r", "p", "m">>,
                  to_u64(5), None),
     HostArtifact(pl, <<"1", ".", "0", "/", "u", ".", "u", "n", "i", "t", "y", "p", "a", "c",
                        "k", "a", "g", "e">>, U64Max, None)}

Plugins == {"pypi", "rpm", "unity"}

\* v with its elements at positions i and i + 1 exchanged
SwapAdjacent(v, i) == [v EXCEPT ![i] = v[i + 1], ![i + 1] = v[i]]

-----------------------------------------------------------------------------
(* The host's calls.  pc is "ready" before the call and "done" after it.   *)

NoRequest == [method |-> "", path |-> << >>, query |-> << >>, headers |-> << >>, body |-> << >>]

NoContext == [repo_key |-> "", base_url |-> << >>, download_base_url |-> << >>]

\* the host is about to route a request to a plugin that handles requests
InitRequest ==
    /\ plugin \in {"pypi", "rpm"}
    /\ pc = "ready"
    /\ op = "none"
    /\ request \in Requests
    /\ context \in Contexts
    /\ artifacts \in SeqsUpTo(RequestArtifacts(plugin), MaxArtifacts)
    /\ path = << >>
    /\ data = << >>
    /\ ret = NoRet
    /\ prev = NoRet
    /\ overflow_checks = FALSE

\* the host is about to pass an upload to a plugin
InitUpload ==
    /\ plugin \in Plugins
    /\ pc = "ready"
    /\ op = "none"
    /\ request = NoRequest
    /\ context = NoContext
    /\ artifacts = << >>
    /\ path \in UploadPaths
    /\ data \in UploadData
    /\ ret = NoRet
    /\ prev = NoRet
    /\ overflow_checks = FALSE

\* the host is about to ask a plugin for the index of a repository; the
\* plugin was built with or without overflow checks
InitIndex ==
    /\ plugin \in Plugins
    /\ pc = "ready"
    /\ op = "none"
    /\ request = NoRequest
    /\ context = NoContext
    /\ artifacts \in SeqsUpTo(IndexArtifacts(plugin), MaxIndexArtifacts)
    /\ path = << >>
    /\ data = << >>
    /\ ret = NoRet
    /\ prev = NoRet
    /\ overflow_checks \in BOOLEAN

Return(o, r) ==
    /\ pc = "ready"
    /\ pc' = "done"
    /\ op' = o
    /\ ret' = r
    /\ UNCHANGED <<plugin, request, context, artifacts, path, data, prev, overflow_checks>>

PypiHandleRequest ==
    /\ plugin = "pypi"
    /\ Return("handle_request", pypi_handle_request(request, context, artifacts))

RpmHandleRequest ==
    /\ plugin = "rpm"
    /\ Return("handle_request", rpm_handle_request(request, context, artifacts))

\* a GET request for path p, with no query, headers or body
Get(p) == [method |-> "GET", path |-> p, query |-> << >>, headers |-> << >>, body |-> << >>]

\* the path of the request a client makes for the link href of a page served
\* under base: href without base and without its #fragment
link_path(href, base) ==
    LET rest == Unwrap(strip_prefix(href, base))
    IN  IF Positions(rest, "#") = {} THEN rest
        ELSE SubSeq(rest, 1, Min(Positions(rest, "#")) - 1)

\* the response to the request the host has just routed
Answered ==
    /\ plugin = "pypi"
    /\ pc = "done"
    /\ op = "handle_request"
    /\ ret.tag = "ok"

\* a second call of handle_request, for req, over the same artifact list
HandleNext(o, req) ==
    /\ op' = o
    /\ request' = req
    /\ prev' = ret
    /\ ret' = pypi_handle_request(req, context, artifacts)
    /\ UNCHANGED <<plugin, pc, context, artifacts, path, data, overflow_checks>>

\* the client follows a link of the root index
PypiFollowRootLink ==
    /\ Answered
    /\ ret.val.status = 200
    /\ ret.val.body.kind = "html"
    /\ ret.val.body.title = "Simple Index"
    /\ \E k \in DOMAIN ret.val.body.links :
          HandleNext("follow root link",
                     Get(link_path(ret.val.body.links[k].href, context.base_url)))

\* the client follows a link of a project page
PypiFollowProjectLink ==
    /\ Answered
    /\ ret.val.status = 200
    /\ ret.val.body.kind = "html"
    /\ ret.val.body.title = "Links for {}"
    /\ \E k \in DOMAIN ret.val.body.links :
          HandleNext("follow project link",
                     Get(link_path(ret.val.body.links[k].href, context.base_url)))

\* the project segment of the path p of a project page, if p is one
project_segment(p) ==
    LET project == strip_prefix(trim_end_matches(p, "/"), SlashSimpleSlash)
    IN  IF IsSome(project) /\ ~contains(Unwrap(project), "/") /\ ~is_empty(Unwrap(project))
        THEN project ELSE None

\* the client asks for the project it has just asked for under another
\* spelling with the same normalized name, with or without a trailing '/'
PypiRequestAlias ==
    /\ Answered
    /\ request.method = "GET"
    /\ IsSome(project_segment(request.path))
    /\ \E q \in Projects, t \in {<< >>, <<"/">>} :
          /\ ~contains(q, "/")
          /\ normalize_package_name(q)
                = normalize_package_name(Unwrap(project_segment(request.path)))
          /\ HandleNext("request alias", Get(SlashSimpleSlash \o q \o t))

PypiParseMetadata ==
    /\ plugin = "pypi"
    /\ Return("parse_metadata", pypi_parse_metadata(path, data))

PypiValidate ==
    /\ plugin = "pypi"
    /\ Return("validate", pypi_validate(path, data))

RpmParseMetadata ==
    /\ plugin = "rpm"
    /\ Return("parse_metadata", rpm_parse_metadata(path, data))

RpmValidate ==
    /\ plugin = "rpm"
    /\ Return("validate", rpm_validate(path, data))

UnityParseMetadata ==
    /\ plugin = "unity"
    /\ Return("parse_metadata", unity_parse_metadata(path, data))

UnityValidate ==
    /\ plugin = "unity"
    /\ Return("validate", unity_validate(path, data))

PypiGenerateIndex ==
    /\ plugin = "pypi"
    /\ Return("generate_index", pypi_generate_index(artifacts, overflow_checks))

RpmGenerateIndex ==
    /\ plugin = "rpm"
    /\ Return("generate_index", rpm_generate_index(artifacts, overflow_checks))

UnityGenerateIndex ==
    /\ plugin = "unity"
    /\ Return("generate_index", unity_generate_index(artifacts, overflow_checks))

\* the host asks for the index again with the same artifacts in another order
Resubmit ==
    /\ pc = "done"
    /\ op = "generate_index"
    /\ \E i \in 1..(Len(artifacts) - 1) :
          /\ artifacts[i] # artifacts[i + 1]
          /\ artifacts' = SwapAdjacent(artifacts, i)
    /\ prev' = ret
    /\ pc' = "ready"
    /\ UNCHANGED <<plugin, op, request, context, path, data, ret, overflow_checks>>

NextRequest ==
    \/ PypiHandleRequest
    \/ RpmHandleRequest
    \/ PypiFollowRootLink
    \/ PypiFollowProjectLink
    \/ PypiRequestAlias

NextUpload ==
    \/ PypiParseMetadata
    \/ PypiValidate
    \/ RpmParseMetadata
    \/ RpmValidate
    \/ UnityParseMetadata
    \/ UnityValidate

NextIndex == PypiGenerateIndex \/ RpmGenerateIndex \/ UnityGenerateIndex \/ Resubmit

SpecRequest == InitRequest /\ [][NextRequest]_vars

SpecUpload == InitUpload /\ [][NextUpload]_vars

SpecIndex == InitIndex /\ [][NextIndex]_vars

-----------------------------------------------------------------------------
(* Claims about handle_request (SpecRequest).                              *)

\* a handle_request call has returned
Handled == pc = "done" /\ op = "handle_request"

GetOrHead == request.method = "GET" \/ request.method = "HEAD"

\* the value of the response header called name (None without one)
HeaderOf(resp, name) ==
    LET hits == {i \in DOMAIN resp.headers : resp.headers[i][1] = name}
    IN  IF hits = {} THEN None ELSE Some(resp.headers[Min(hits)][2])

\* the element of the set of integers S with exactly k - 1 smaller elements
Nth(S, k) == CHOOSE i \in S : Cardinality({j \in S : j < i}) = k - 1

\* C1: a request whose method is not exactly GET or HEAD is answered 405 with
\* the single header allow: GET, HEAD, whatever its path and the artifacts
C1_MethodNotAllowed ==
    (Handled /\ ~GetOrHead) =>
        /\ ret.tag = "ok"
        /\ ret.val.status = 405
        /\ ret.val.headers = << <<"allow", "GET, HEAD">> >>

\* C1 witness: a POST to the root index, a recognized path, answered 405
C1_Witness ==
    /\ Handled
    /\ request.method = "POST"
    /\ request.path = SlashSimpleSlash
    /\ Len(artifacts) > 0
    /\ ret.val.status = 405

\* the filename a GET/HEAD request asks to download: the rest of the path after
\* /packages/ (and, for RPM, /Packages/), when it is non-empty and has no '/'
DownloadFilename ==
    LET after == IF starts_with(request.path, SlashPackagesSlash)
                 THEN Some(SubSeq(request.path, Len(SlashPackagesSlash) + 1, Len(request.path)))
                 ELSE IF plugin = "rpm" /\ starts_with(request.path, SlashCapPackagesSlash)
                 THEN Some(SubSeq(request.path, Len(SlashCapPackagesSlash) + 1,
                                  Len(request.path)))
                 ELSE None
    IN  IF IsSome(after) /\ Len(Unwrap(after)) > 0 /\ ~contains(Unwrap(after), "/")
        THEN after ELSE None

\* the last '/'-separated segment of p is f (f has no '/')
LastSegmentIs(p, f) == p = f \/ ends_with(p, <<"/">> \o f)

\* C2: a GET/HEAD download request is answered 302, with an empty body and the
\* location download_base_url/path of an artifact whose last path segment is
\* the filename, exactly when there is such an artifact; otherwise 404 with a
\* plain-text body naming the filename
C2_DownloadRedirect ==
    (Handled /\ GetOrHead /\ IsSome(DownloadFilename)) =>
        LET f    == Unwrap(DownloadFilename)
            hits == {i \in DOMAIN artifacts : LastSegmentIs(artifacts[i].path, f)}
            resp == ret.val
        IN  /\ ret.tag = "ok"
            /\ (resp.status = 302) <=> (hits # {})
            /\ hits # {} =>
                  /\ resp.body = EmptyBody
                  /\ \E i \in hits :
                        HeaderOf(resp, "location")
                            = Some(context.download_base_url \o <<"/">> \o artifacts[i].path)
            /\ hits = {} =>
                  /\ resp.status = 404
                  /\ HeaderOf(resp, "content-type") = Some("text/plain")
                  /\ resp.body.kind = "text"
                  /\ resp.body.arg = f

\* C2 witness: a redirect to an artifact stored in a directory
C2_Witness ==
    /\ Handled
    /\ GetOrHead
    /\ IsSome(DownloadFilename)
    /\ ret.val.status = 302
    /\ \E i \in DOMAIN artifacts :
          /\ contains(artifacts[i].path, "/")
          /\ HeaderOf(ret.val, "location")
                = Some(context.download_base_url \o <<"/">> \o artifacts[i].path)

\* C3: handle_request returns a response, never an error, and its status is
\* one of 200, 302, 404, 405
C3_NeverFails ==
    Handled => (ret.tag = "ok" /\ ret.val.status \in {200, 302, 404, 405})

\* C3 witness: the RPM handler compressed the package list of an empty repository
C3_Witness ==
    /\ Handled
    /\ plugin = "rpm"
    /\ request.path = PrimaryXmlGzPath
    /\ GetOrHead
    /\ artifacts = << >>
    /\ ret.tag = "ok"
    /\ ret.val.status = 200

\* the project of a /simple/{project}/ request: non-empty, without '/'
ProjectOfPath ==
    IF /\ starts_with(request.path, SlashSimpleSlash)
       /\ ends_with(request.path, <<"/">>)
       /\ Len(request.path) > Len(SlashSimpleSlash) + 1
    THEN LET pr == SubSeq(request.path, Len(SlashSimpleSlash) + 1, Len(request.path) - 1)
         IN  IF contains(pr, "/") THEN None ELSE Some(pr)
    ELSE None

\* the artifacts (positions in the list) a project page of project pr selects
SelectedFor(pr) ==
    {i \in DOMAIN artifacts :
        LET n == extract_package_name(filename_of(artifacts[i].path))
        IN  IsSome(n) /\ normalize_package_name(Unwrap(n)) = normalize_package_name(pr)}

\* the link a project page shows for artifact a
ProjectLink(a) ==
    LET f == filename_of(a.path)
    IN  Link(context.base_url \o SlashPackagesSlash \o f
               \o (IF a.checksum_sha256 # None /\ a.checksum_sha256 # Some(<< >>)
                   THEN <<"#", "s", "h", "a", "2", "5", "6", "=">> \o Unwrap(a.checksum_sha256)
                   ELSE << >>),
             f)

\* C4: the Python project page selects exactly the artifacts whose normalized
\* package name equals the normalized project; none selected gives 404 naming
\* the project, otherwise 200 with one link per selected artifact in list
\* order, with a #sha256= fragment exactly for a present, non-empty checksum
C4_ProjectPage ==
    (Handled /\ plugin = "pypi" /\ GetOrHead /\ IsSome(ProjectOfPath)) =>
        LET pr   == Unwrap(ProjectOfPath)
            sel  == SelectedFor(pr)
            resp == ret.val
        IN  /\ ret.tag = "ok"
            /\ sel = {} =>
                  /\ resp.status = 404
                  /\ resp.body.kind = "text"
                  /\ resp.body.arg = pr
            /\ sel # {} =>
                  /\ resp.status = 200
                  /\ resp.body.kind = "html"
                  /\ Len(resp.body.links) = Cardinality(sel)
                  /\ \A k \in DOMAIN resp.body.links :
                        resp.body.links[k] = ProjectLink(artifacts[Nth(sel, k)])

\* C4 witness: a page of two links, one with a fragment and one without, for a
\* project written in another case than the filenames
C4_Witness ==
    /\ Handled
    /\ plugin = "pypi"
    /\ GetOrHead
    /\ ProjectOfPath = Some(<<"A">>)
    /\ ret.val.status = 200
    /\ Len(ret.val.body.links) = 2
    /\ artifacts[1].checksum_sha256 = Some(<<"c">>)
    /\ artifacts[2].checksum_sha256 \in {None, Some(<< >>)}
    /\ artifacts[1].path # artifacts[2].path

\* filename has the form of a wheel or of a source distribution
MatchesPythonGrammar(filename) ==
    \/ ends_with(filename, DotWhl)
    \/ \E ext \in {DotTarGz, DotZip} :
          /\ ends_with(filename, ext)
          /\ contains(SubSeq(filename, 1, Len(filename) - Len(ext)), "-")

\* the normalized package names of the artifacts whose filename has that form
IndexedNames ==
    {normalize_package_name(Unwrap(extract_package_name(filename_of(artifacts[i].path)))) :
        i \in {j \in DOMAIN artifacts : MatchesPythonGrammar(filename_of(artifacts[j].path))}}

\* C5: the Python root index answers 200 with one link per distinct normalized
\* package name, to base_url/simple/name/, in strictly ascending order; an
\* artifact whose filename is no wheel or sdist name contributes no link
C5_RootIndex ==
    (Handled /\ plugin = "pypi" /\ GetOrHead
        /\ request.path \in {SlashSimpleSlash, SlashSimple, <<"/">>}) =>
        LET links == ret.val.body.links
        IN  /\ ret.tag = "ok"
            /\ ret.val.status = 200
            /\ {links[k].text : k \in DOMAIN links} = IndexedNames
            /\ \A k \in DOMAIN links :
                  links[k].href = context.base_url \o SlashSimpleSlash \o links[k].text \o <<"/">>
            /\ \A k \in 1..(Len(links) - 1) : str_lt(links[k].text, links[k + 1].text)

\* C5 witness: two artifacts of one package and the index shows it once
C5_Witness ==
    /\ Handled
    /\ plugin = "pypi"
    /\ GetOrHead
    /\ request.path = SlashSimple
    /\ Len(artifacts) = 2
    /\ artifacts[1].path # artifacts[2].path
    /\ \A i \in DOMAIN artifacts : MatchesPythonGrammar(filename_of(artifacts[i].path))
    /\ ret.val.status = 200
    /\ Len(ret.val.body.links) = 1

-----------------------------------------------------------------------------
(* Claims about validate and parse_metadata (SpecUpload).                  *)

Validated == pc = "done" /\ op = "validate"

Parsed == pc = "done" /\ op = "parse_metadata"

\* the check of validate that an error message reports
CheckOfMessage(m) ==
    CASE m \in {"Python package cannot be empty", "RPM package cannot be empty",
                "Unity package cannot be empty"} -> "empty data"
      [] m = "Artifact path cannot be empty" -> "empty path"
      [] m \in {"Expected .whl, .tar.gz, or .zip extension, got: {filename}",
                "Expected .rpm extension, got: {}",
                "Expected .unitypackage extension, got: {}"} -> "extension"
      [] m \in {"File too small for RPM lead: {} bytes (minimum {})",
                "Invalid RPM magic: expected [ed, ab, ee, db], got [..]",
                "File too small to be a valid gzip archive",
                "Invalid gzip header: expected [1f, 8b], got [..]",
                "Unsupported gzip compression method: {:02x} (expected 08/deflate)"}
            -> "size/magic"
      [] m \in {"Invalid wheel filename: expected at least 5 dash-separated parts",
                "Invalid source distribution filename: expected 'name-version' format"}
            -> "name structure"

\* the extensions a plugin accepts
AcceptedExtensions(pl) ==
    CASE pl = "pypi"  -> {DotWhl, DotTarGz, DotZip}
      [] pl = "rpm"   -> {DotRpm}
      [] pl = "unity" -> {DotUnitypackage}

\* p, compared without case, has none of the extensions of pl
ExtensionViolated(pl, p) ==
    \A e \in AcceptedExtensions(pl) : ~ends_with(to_lowercase(p), e)

\* d lacks the binary signature pl asks for
SignatureViolated(pl, d) ==
    CASE pl = "pypi"  -> FALSE
      [] pl = "rpm"   -> Len(d) < RPM_LEAD_SIZE \/ SubSeq(d, 1, 4) # RPM_MAGIC
      [] pl = "unity" -> \/ Len(d) < 2
                         \/ d[1] # 31
                         \/ d[2] # 139
                         \/ (Len(d) >= 3 /\ d[3] # 8)

\* the number of '-' in s
Dashes(s) == Cardinality(Positions(s, "-"))

\* the filename of p, of an accepted extension, lacks the structure pl asks for
NameViolated(pl, p) ==
    /\ pl = "pypi"
    /\ LET lower == to_lowercase(filename_of(p))
       IN  \/ ends_with(lower, DotWhl) /\ Dashes(lower) < 4
           \/ \E e \in {DotTarGz, DotZip} : ends_with(lower, e) /\ Dashes(lower) = 0

\* the earliest violated check, in the order empty data, empty path,
\* extension, size/magic, name structure
EarliestViolated(pl, p, d) ==
    IF d = << >> THEN "empty data"
    ELSE IF p = << >> THEN "empty path"
    ELSE IF ExtensionViolated(pl, p) THEN "extension"
    ELSE IF SignatureViolated(pl, d) THEN "size/magic"
    ELSE IF NameViolated(pl, p) THEN "name structure"
    ELSE "none"

\* C6: validate reports the earliest violated check in the order empty data,
\* empty path, extension, size/magic, name structure, and succeeds only when
\* no check is violated
C6_ValidatePrecedence ==
    Validated =>
        IF ret.tag = "ok" THEN EarliestViolated(plugin, path, data) = "none"
        ELSE /\ ret.tag = "err"
             /\ CheckOfMessage(ret.msg) = EarliestViolated(plugin, path, data)

\* C6 witness: a wrong extension together with a bad magic in a full-size lead
\* reports the extension
C6_Witness ==
    /\ Validated
    /\ plugin = "rpm"
    /\ path # << >>
    /\ ExtensionViolated("rpm", path)
    /\ Len(data) >= RPM_LEAD_SIZE
    /\ SubSeq(data, 1, 4) # RPM_MAGIC
    /\ ret.tag = "err"
    /\ CheckOfMessage(ret.msg) = "extension"

\* C7: a path that validate accepts has a filename of the format's grammar:
\* for Python, extract_package_name and extract_version both return a value;
\* for RPM, parse_rpm_filename returns a name
C7_ValidatedMatchesGrammar ==
    (Validated /\ ret.tag = "ok") =>
        LET filename == filename_of(path)
        IN  /\ plugin = "pypi" =>
                  /\ IsSome(extract_package_name(filename))
                  /\ IsSome(extract_version(filename))
            /\ plugin = "rpm" => IsSome(parse_rpm_filename(filename).name)

\* paths that differ in their extension only
AlternativePaths == {<<"a", "-", "1">> \o e : e \in UploadExtensions}

\* C9 as stated: in every handler the content_type of parse_metadata is the
\* same for the same data under every other path
C9_ContentTypeFromBytes ==
    (Parsed /\ ret.tag = "ok") =>
        \A p2 \in AlternativePaths :
            parse_metadata(plugin, p2, data).val.content_type = ret.val.content_type

\* the content type the magic-number table of pl gives the leading bytes of d
TypeOfBytes(pl, d) ==
    CASE pl = "rpm" ->
            IF Len(d) >= 4 /\ d[1] = 237 /\ d[2] = 171 /\ d[3] = 238 /\ d[4] = 219
            THEN "application/x-rpm" ELSE "application/octet-stream"
      [] pl = "unity" ->
            IF Len(d) >= 2 /\ d[1] = 31 /\ d[2] = 139
            THEN "application/gzip" ELSE "application/octet-stream"

\* the content type the Python handler gives the extension of filename
TypeOfExtension(filename) ==
    IF ends_with(filename, DotWhl) \/ ends_with(filename, DotZip) THEN "application/zip"
    ELSE IF ends_with(filename, DotTarGz) THEN "application/gzip"
    ELSE "application/octet-stream"

\* C9 amended: the RPM and Unity handlers classify content_type by the leading
\* bytes of data, so it is the same under every other path; the Python handler
\* classifies it by the extension of the filename, whatever the data
C9_ContentTypeAmended ==
    (Parsed /\ ret.tag = "ok") =>
        /\ plugin \in {"rpm", "unity"} =>
              /\ ret.val.content_type = TypeOfBytes(plugin, data)
              /\ \A p2 \in AlternativePaths :
                    parse_metadata(plugin, p2, data).val.content_type = ret.val.content_type
        /\ plugin = "pypi" => ret.val.content_type = TypeOfExtension(filename_of(path))

\* C9 witness: RPM bytes under a path that is no .rpm are application/x-rpm
C9_Witness ==
    /\ Parsed
    /\ plugin = "rpm"
    /\ ~ends_with(path, DotRpm)
    /\ Len(data) >= 4
    /\ SubSeq(data, 1, 4) = RPM_MAGIC
    /\ ret.tag = "ok"
    /\ ret.val.content_type = "application/x-rpm"

\* C10: parse_metadata fails exactly for empty data; on success the record has
\* the input path, the byte length of data as size_bytes, a non-empty
\* content_type and no checksum
C10_ParseMetadata ==
    Parsed =>
        /\ ret.tag \in {"ok", "err"}
        /\ (ret.tag = "err") <=> (data = << >>)
        /\ ret.tag = "ok" =>
              /\ ret.val.path = path
              /\ ret.val.size_bytes[1] + LimbBase * ret.val.size_bytes[2] = Len(data)
              /\ ret.val.size_bytes[3] = 0
              /\ ret.val.size_bytes[4] = 0
              /\ ret.val.content_type # ""
              /\ ret.val.checksum_sha256 = None

\* C10 witness: an empty path with data parses
C10_Witness ==
    /\ Parsed
    /\ plugin = "pypi"
    /\ path = << >>
    /\ Len(data) >= RPM_LEAD_SIZE
    /\ ret.tag = "ok"
    /\ ret.val.path = << >>

-----------------------------------------------------------------------------
(* Claims about generate_index (SpecIndex).                                *)

\* generate_index has returned for a list the host had passed in another order
Reindexed == pc = "done" /\ op = "generate_index" /\ prev.tag # "none"

\* the documents of a successful generate_index
DocsOf(r) == Unwrap(r.val)

\* the links of v are in strictly ascending order of their text
Ascending(links) == \A k \in 1..(Len(links) - 1) : str_lt(links[k].text, links[k + 1].text)

\* C8 as stated: generate_index returns identical documents for two lists that
\* are permutations of each other, the Python index in ascending order of the
\* normalized names
C8_OrderIndependent ==
    Reindexed =>
        /\ ret = prev
        /\ (plugin = "pypi" /\ ret.tag = "ok") => Ascending(DocsOf(ret)[1][2].links)

\* C8 amended: under a permutation of the input the outcome is the same, the
\* Python simple/index.html is identical and strictly ascending, and the JSON
\* catalog keeps format and totals but lists its packages in input order
C8_OrderAmended ==
    Reindexed =>
        /\ ret.tag = prev.tag
        /\ ret.tag = "ok" =>
              LET docs  == DocsOf(ret)
                  pdocs == DocsOf(prev)
                  json  == docs[Len(docs)][2]
                  pjson == pdocs[Len(pdocs)][2]
              IN  /\ Len(docs) = Len(pdocs)
                  /\ \A k \in DOMAIN docs : docs[k][1] = pdocs[k][1]
                  /\ plugin = "pypi" =>
                        /\ docs[1] = pdocs[1]
                        /\ Ascending(docs[1][2].links)
                  /\ json.format = pjson.format
                  /\ json.total_count = pjson.total_count
                  /\ json.total_size_bytes = pjson.total_size_bytes
                  /\ \A i \in DOMAIN artifacts : json.packages[i].path = artifacts[i].path
                  /\ \E i \in 1..(Len(artifacts) - 1) :
                        json.packages = SwapAdjacent(pjson.packages, i)

\* C8 witness: the Python index of a reordered list: the same HTML of two
\* links, another JSON catalog
C8_Witness ==
    /\ Reindexed
    /\ plugin = "pypi"
    /\ ret.tag = "ok"
    /\ prev.tag = "ok"
    /\ Len(DocsOf(ret)[1][2].links) >= 2
    /\ DocsOf(ret)[1] = DocsOf(prev)[1]
    /\ DocsOf(ret)[2] # DocsOf(prev)[2]

-----------------------------------------------------------------------------
(* The filename helpers, called on their own.  The str argument is held in  *)
(* path; a returned value that is no Result is kept as Value(v).            *)

\* longest package name drawn for normalize_package_name
MaxNameLen == 4

\* longest stem drawn for the filename parsers
MaxFilenameLen == 5

Value(v) == [tag |-> "value", val |-> v]

NameChars == {"a", "B", "1", "-", "_", "."} \cup NonAscii

FilenameChars == {"a", "1", "-", "."}

\* the tags of a pure-Python wheel
WheelTags == <<"-", "p", "y", "3", "-", "n", "o", "n", "e", "-", "a", "n", "y">> \o DotWhl

PythonNames ==
    SeqsUpTo(NameChars, MaxNameLen)
        \cup {<<"M", "y", "_", ".", "-", "P", "k", "g">>, <<"-", "-", "a", "-", "-">>}

PythonFilenames ==
    {s \o e : s \in SeqsUpTo(FilenameChars, MaxFilenameLen),
              e \in {<< >>, DotWhl, WheelTags, DotTarGz, DotZip, <<".", "Z", "I", "P">>}}

RpmDirs == {<< >>, <<"d", "-", "1", "-", "2", "/">>}

Python3NumpyRpm ==
    <<"p", "y", "t", "h", "o", "n", "3", "-", "n", "u", "m", "p", "y", "-",
      "1", ".", "2", "4", ".", "2", "-", "4", ".", "e", "l", "9", ".",
      "x", "8", "6", "_", "6", "4">> \o DotRpm

\* a filename without a release
Name123Rpm ==
    <<"n", "a", "m", "e", "-", "1", ".", "2", ".", "3", ".", "x", "8", "6", "_", "6", "4">>
        \o DotRpm

RpmFilenames ==
    {s \o e : s \in SeqsUpTo(FilenameChars \ {"1"}, MaxFilenameLen),
              e \in {<< >>, DotRpm, <<".", "R", "P", "M">>}}
        \cup {Python3NumpyRpm, Name123Rpm}

UnityChars == {"a", "1", "-", ".", "v"}

UnityDirs ==
    {<< >>, <<"x", "/">>, <<"v", "1", ".", "0", "/">>,
     <<"2", ".", "0", "/", "1", ".", "a", "/">>}

UnityFilenames ==
    {s \o e : s \in SeqsUpTo(UnityChars, MaxFilenameLen), e \in {<< >>, DotUnitypackage}}
        \cup {<<"-", "1", "_", "-", "1", ".">> \o DotUnitypackage}

FilenameInputs(pl) ==
    CASE pl = "pypi"  -> PythonNames \cup PythonFilenames
      [] pl = "rpm"   -> {d \o f : d \in RpmDirs, f \in RpmFilenames}
      [] pl = "unity" -> {d \o f : d \in UnityDirs, f \in UnityFilenames}

\* a plugin is about to call one of its filename helpers
InitFilename ==
    /\ plugin \in {"pypi", "rpm", "unity"}
    /\ pc = "ready"
    /\ op = "none"
    /\ request = NoRequest
    /\ context = NoContext
    /\ artifacts = << >>
    /\ path \in FilenameInputs(plugin)
    /\ data = <<0>>
    /\ ret = NoRet
    /\ prev = NoRet
    /\ overflow_checks = FALSE

NormalizePackageName ==
    /\ plugin = "pypi"
    /\ Return("normalize_package_name", Value(normalize_package_name(path)))

\* the result of normalize_package_name is normalized once more
NormalizeAgain ==
    /\ pc = "done"
    /\ op = "normalize_package_name"
    /\ op' = "normalize_package_name again"
    /\ prev' = ret
    /\ ret' = Value(normalize_package_name(ret.val))
    /\ UNCHANGED <<plugin, pc, request, context, artifacts, path, data, overflow_checks>>

ExtractPackageName ==
    /\ plugin = "pypi"
    /\ Return("extract_package_name", Value(extract_package_name(path)))

ExtractVersion ==
    /\ plugin = "pypi"
    /\ Return("extract_version", Value(extract_version(path)))

ParseRpmFilename ==
    /\ plugin = "rpm"
    /\ Return("parse_rpm_filename", Value(parse_rpm_filename(filename_of(path))))

ExtractVersionFromPath ==
    /\ plugin = "unity"
    /\ Return("extract_version_from_path", Value(extract_version_from_path(path)))

NextFilename ==
    \/ NormalizePackageName
    \/ NormalizeAgain
    \/ ExtractPackageName
    \/ ExtractVersion
    \/ ParseRpmFilename
    \/ RpmParseMetadata
    \/ ExtractVersionFromPath
    \/ UnityParseMetadata

SpecFilename == InitFilename /\ [][NextFilename]_vars

-----------------------------------------------------------------------------
(* Claims about the filename helpers (SpecFilename).                       *)

Normalized == pc = "done" /\ op = "normalize_package_name"

Renormalized == pc = "done" /\ op = "normalize_package_name again"

\* s has only lower-case ASCII letters, digits and '-', no '-' at either end
\* and no two adjacent '-'
IsNormalForm(s) ==
    /\ \A i \in DOMAIN s : s[i] \in Range(Lowers) \cup Range(Digits) \cup {"-"}
    /\ Len(s) > 0 => (s[1] # "-" /\ s[Len(s)] # "-")
    /\ \A i \in 1..(Len(s) - 1) : ~(s[i] = "-" /\ s[i + 1] = "-")

\* C11: the result of normalize_package_name has only lower-case ASCII letters,
\* digits and single internal hyphens, and normalizing it again returns it
\* unchanged
C11_NormalizeIdempotent ==
    /\ Normalized => IsNormalForm(ret.val)
    /\ Renormalized => (ret = prev /\ IsNormalForm(ret.val))

\* C11 witness: a name with upper case, runs of separators at both ends and
\* inside was normalized twice
C11_Witness ==
    /\ Renormalized
    /\ path = <<"-", "-", "a", "-", "-">> \/ path = <<"M", "y", "_", ".", "-", "P", "k", "g">>
    /\ prev.val # path
    /\ ret = prev

NoDash(s) == ~contains(s, "-")

\* the text of s before position i, and the text after it without the suffix suf
Before(s, i) == SubSeq(s, 1, i - 1)

Between(s, i, suf) == SubSeq(s, i + 1, Len(s) - Len(suf))

\* C12: for a filename name-version-py3-none-any.whl whose name and version
\* have no '-', and for a filename name-version.tar.gz or name-version.zip
\* whose version has no '-', extract_package_name returns exactly name and
\* extract_version returns exactly version
C12_FilenameRoundTrip ==
    (pc = "done" /\ op \in {"extract_package_name", "extract_version"}) =>
        \A i \in Positions(path, "-") :
            /\ (/\ ends_with(path, WheelTags)
                /\ i <= Len(path) - Len(WheelTags)
                /\ NoDash(Before(path, i))
                /\ NoDash(Between(path, i, WheelTags))) =>
                    ret.val = IF op = "extract_package_name"
                              THEN Some(Before(path, i))
                              ELSE Some(Between(path, i, WheelTags))
            /\ \A ext \in {DotTarGz, DotZip} :
                  (/\ ends_with(path, ext)
                   /\ NoDash(Between(path, i, ext))) =>
                      ret.val = IF op = "extract_package_name"
                                THEN Some(Before(path, i))
                                ELSE Some(Between(path, i, ext))

\* C12 witness: the name of a source distribution whose name has a '-'
C12_Witness ==
    /\ pc = "done"
    /\ op = "extract_package_name"
    /\ path = <<"a", "-", "a", "-", "1">> \o DotTarGz
    /\ ret.val = Some(<<"a", "-", "a">>)

\* the text of s after its last c, absent without a c in s
AfterLast(s, c) ==
    IF Positions(s, c) = {} THEN None
    ELSE Some(SubSeq(s, Max(Positions(s, c)) + 1, Len(s)))

\* the text of s before its last c, the whole of s without a c in s
UpToLast(s, c) ==
    IF Positions(s, c) = {} THEN s ELSE SubSeq(s, 1, Max(Positions(s, c)) - 1)

Str_python3_numpy == SubSeq(Python3NumpyRpm, 1, 13)

Str_1_24_2 == SubSeq(Python3NumpyRpm, 15, 20)

Str_4_el9 == SubSeq(Python3NumpyRpm, 22, 26)

Str_x86_64 == SubSeq(Python3NumpyRpm, 28, 33)

\* C13: for a filename ending in .rpm, parse_rpm_filename returns, of the stem
\* without .rpm, the text after the last '.' as arch, of what is before it the
\* text after the last '-' as release, of what is before that the text after
\* the last '-' as version and the rest as name; a separator that is missing
\* leaves its field absent; python3-numpy-1.24.2-4.el9.x86_64.rpm gives
\* python3-numpy, 1.24.2, 4.el9, x86_64
C13_RpmGrammar ==
    (pc = "done" /\ op = "parse_rpm_filename" /\ ends_with(filename_of(path), DotRpm)) =>
        LET filename == filename_of(path)
            stem     == SubSeq(filename, 1, Len(filename) - Len(DotRpm))
            rest1    == UpToLast(stem, ".")
            rest2    == UpToLast(rest1, "-")
        IN  /\ ret.tag = "value"
            /\ ret.val.arch = AfterLast(stem, ".")
            /\ ret.val.release = AfterLast(rest1, "-")
            /\ ret.val.version = AfterLast(rest2, "-")
            /\ ret.val.name = Some(UpToLast(rest2, "-"))
            /\ filename = Python3NumpyRpm =>
                  ret.val = [name |-> Some(Str_python3_numpy), version |-> Some(Str_1_24_2),
                             release |-> Some(Str_4_el9), arch |-> Some(Str_x86_64)]

\* C13 witness: the hyphenated name of python3-numpy was recovered whole
C13_Witness ==
    /\ pc = "done"
    /\ op = "parse_rpm_filename"
    /\ filename_of(path) = Python3NumpyRpm
    /\ ret.val.name = Some(<<"p", "y", "t", "h", "o", "n", "3", "-", "n", "u", "m", "p", "y">>)
    /\ ret.val.version = Some(<<"1", ".", "2", "4", ".", "2">>)

\* the version and the release field of the RPM filename f, by the grammar of C13
VersionField(f) ==
    IF ~ends_with(f, DotRpm) THEN None
    ELSE AfterLast(UpToLast(UpToLast(SubSeq(f, 1, Len(f) - Len(DotRpm)), "."), "-"), "-")

ReleaseField(f) ==
    IF ~ends_with(f, DotRpm) THEN None
    ELSE AfterLast(UpToLast(SubSeq(f, 1, Len(f) - Len(DotRpm)), "."), "-")

\* C14: the version in the Metadata of the RPM parse_metadata is
\* version-release of the filename of the path when both fields are present,
\* the version alone when only it is present, and absent otherwise
C14_RpmReportedVersion ==
    (Parsed /\ plugin = "rpm" /\ ret.tag = "ok") =>
        LET version == VersionField(filename_of(path))
            release == ReleaseField(filename_of(path))
        IN  ret.val.version =
                IF IsSome(version) /\ IsSome(release)
                THEN Some(Unwrap(version) \o <<"-">> \o Unwrap(release))
                ELSE IF IsSome(version) THEN version
                ELSE None

\* C14 witness: a-a-a.rpm in a directory whose name has hyphens of its own
\* reports a-a
C14_Witness ==
    /\ Parsed
    /\ plugin = "rpm"
    /\ path = <<"d", "-", "1", "-", "2", "/", "a", "-", "a", "-", "a">> \o DotRpm
    /\ ret.tag = "ok"
    /\ ret.val.version = Some(<<"a", "-", "a">>)

-----------------------------------------------------------------------------
(* Claims about each validate (SpecUpload).                                *)

\* C15: RPM validate, given data and a path ending in .rpm in any case, fails
\* as too small for fewer than 96 bytes, fails as bad magic for at least 96
\* bytes not starting with ed ab ee db, and succeeds otherwise, whatever the
\* rest of the filename
C15_RpmValidate ==
    (Validated /\ plugin = "rpm" /\ data # << >> /\ path # << >>
        /\ ends_with(to_lowercase(path), DotRpm)) =>
        IF Len(data) < 96
        THEN /\ ret.tag = "err"
             /\ ret.msg = "File too small for RPM lead: {} bytes (minimum {})"
             /\ ret.arg = Len(data)
        ELSE IF ~(data[1] = 237 /\ data[2] = 171 /\ data[3] = 238 /\ data[4] = 219)
        THEN /\ ret.tag = "err"
             /\ ret.msg = "Invalid RPM magic: expected [ed, ab, ee, db], got [..]"
        ELSE ret.tag = "ok"

\* C15 witness: a 96-byte lead under a name of hyphens with an upper-case
\* extension is accepted
C15_Witness ==
    /\ Validated
    /\ plugin = "rpm"
    /\ path = <<"-", "-", ".", "R", "P", "M">>
    /\ Len(data) = 96
    /\ ret.tag = "ok"

\* C16: Python validate, given data and a path, accepts exactly the filenames
\* that end, in any case, in .whl with at least 5 '-'-separated fields in the
\* stem or in .tar.gz or .zip with a '-' in the stem; it reports the extension
\* for another ending, the wheel structure for fewer fields and the source
\* distribution structure for a stem without '-'
C16_PypiValidate ==
    (Validated /\ plugin = "pypi" /\ data # << >> /\ path # << >>) =>
        LET lower == to_lowercase(filename_of(path))
            whl   == ends_with(lower, DotWhl)
            sdist == ends_with(lower, DotTarGz) \/ ends_with(lower, DotZip)
        IN  IF ~whl /\ ~sdist
            THEN /\ ret.tag = "err"
                 /\ ret.msg = "Expected .whl, .tar.gz, or .zip extension, got: {filename}"
            ELSE IF whl /\ Dashes(lower) + 1 < 5
            THEN /\ ret.tag = "err"
                 /\ ret.msg = "Invalid wheel filename: expected at least 5 dash-separated parts"
            ELSE IF sdist /\ Dashes(lower) = 0
            THEN /\ ret.tag = "err"
                 /\ ret.msg
                      = "Invalid source distribution filename: expected 'name-version' format"
            ELSE ret.tag = "ok"

\* C16 witness: a wheel of five empty fields with an upper-case extension is
\* accepted
C16_Witness ==
    /\ Validated
    /\ plugin = "pypi"
    /\ filename_of(path) = <<"-", "-", "-", "-", ".", "W", "H", "L">>
    /\ data # << >>
    /\ ret.tag = "ok"

\* C17: Unity validate, given data and a path with the extension, fails as too
\* small for 1 byte, fails as bad magic unless the first 2 bytes are 1f 8b,
\* fails for a 3rd byte that is not 08, and succeeds otherwise
C17_UnityValidate ==
    (Validated /\ plugin = "unity" /\ data # << >> /\ path # << >>
        /\ ends_with(to_lowercase(path), DotUnitypackage)) =>
        IF Len(data) = 1
        THEN /\ ret.tag = "err"
             /\ ret.msg = "File too small to be a valid gzip archive"
        ELSE IF ~(data[1] = 31 /\ data[2] = 139)
        THEN /\ ret.tag = "err"
             /\ ret.msg = "Invalid gzip header: expected [1f, 8b], got [..]"
        ELSE IF Len(data) >= 3 /\ data[3] # 8
        THEN /\ ret.tag = "err"
             /\ ret.msg = "Unsupported gzip compression method: {:02x} (expected 08/deflate)"
        ELSE ret.tag = "ok"

\* C17 witness: exactly the two bytes 1f 8b are accepted
C17_Witness ==
    /\ Validated
    /\ plugin = "unity"
    /\ data = <<31, 139>>
    /\ ret.tag = "ok"

-----------------------------------------------------------------------------
(* rpm-format: crc32 and gzip_compress on bytes.  A u32 is two 16-bit      *)
(* limbs, least significant first.                                         *)

\* a ^ b on the lowest n bits
RECURSIVE xor_bits(_, _, _)
xor_bits(a, b, n) ==
    IF n = 0 THEN 0
    ELSE ((a + b) % 2) + 2 * xor_bits(a \div 2, b \div 2, n - 1)

\* ^ on 4-bit values, tabulated
XorNibble == [a \in 0..15 |-> [b \in 0..15 |-> xor_bits(a, b, 4)]]

\* ^ on 16-bit values
xor16(a, b) ==
    XorNibble[a % 16][b % 16]
        + 16 * XorNibble[(a \div 16) % 16][(b \div 16) % 16]
        + 256 * XorNibble[(a \div 256) % 16][(b \div 256) % 16]
        + 4096 * XorNibble[a \div 4096][b \div 4096]

\* ^ on u32
xor_u32(a, b) == <<xor16(a[1], b[1]), xor16(a[2], b[2])>>

\* >> 1 on u32
shr1(a) == <<(a[1] \div 2) + (LimbBase \div 2) * (a[2] % 2), a[2] \div 2>>

\* ! on u32
not_u32(a) == <<LimbBase - 1 - a[1], LimbBase - 1 - a[2]>>

\* n as u32, for a usize n below 2^31 (data.len() as u32)
to_u32(n) == <<n % LimbBase, (n \div LimbBase) % LimbBase>>

\* u32::to_le_bytes
u32_to_le_bytes(a) == <<a[1] % 256, a[1] \div 256, a[2] % 256, a[2] \div 256>>

\* 0xEDB8_8320
CrcPolynomial == <<33568, 60856>>

\* the inner loop of crc32: k more rounds of for _ in 0..8
RECURSIVE crc32_bits(_, _)
crc32_bits(crc, k) ==
    IF k = 0 THEN crc
    ELSE crc32_bits(IF crc[1] % 2 # 0 THEN xor_u32(shr1(crc), CrcPolynomial) ELSE shr1(crc),
                    k - 1)

\* the outer loop of crc32 over d[lo..hi], entered with crc; the range is
\* halved and the first half is evaluated before the second is entered
RECURSIVE crc32_loop(_, _, _, _)
crc32_loop(d, lo, hi, crc) ==
    IF lo > hi THEN crc
    ELSE IF lo = hi THEN crc32_bits(<<xor16(crc[1], d[lo]), crc[2]>>, 8)
    ELSE LET mid  == (lo + hi) \div 2
             left == crc32_loop(d, lo, mid, crc)
         IN  IF left[1] >= 0 THEN crc32_loop(d, mid + 1, hi, left) ELSE left

\* crc32 without the final inversion
crc32_no_final_not(d) == crc32_loop(d, 1, Len(d), <<LimbBase - 1, LimbBase - 1>>)

crc32(d) == not_u32(crc32_loop(d, 1, Len(d), <<LimbBase - 1, LimbBase - 1>>))

\* the 10 bytes of the gzip header
GzipHeader == <<31, 139, 8, 0, 0, 0, 0, 0, 0, 255>>

\* stored_block writing len twice instead of len and !len
stored_block_without_complement(chunk, is_last) ==
    LET len == Len(chunk) % LimbBase
    IN  <<IF is_last THEN 1 ELSE 0, len % 256, len \div 256, len % 256, len \div 256>>
            \o chunk

\* one stored block: its header byte, len and nlen as u16 little-endian, the chunk
stored_block(chunk, is_last) ==
    LET len  == Len(chunk) % LimbBase
        nlen == LimbBase - 1 - len
    IN  <<IF is_last THEN 1 ELSE 0, len % 256, len \div 256, nlen % 256, nlen \div 256>>
            \o chunk

\* the stored blocks of the chunks i.. of d, in chunks of at most size bytes
RECURSIVE stored_blocks(_, _, _)
stored_blocks(d, size, i) ==
    LET first   == (i - 1) * size + 1
        last    == IF i * size < Len(d) THEN i * size ELSE Len(d)
        is_last == i * size >= Len(d)
    IN  stored_block(SubSeq(d, first, last), is_last)
            \o (IF is_last THEN << >> ELSE stored_blocks(d, size, i + 1))

\* gzip_compress with data.chunks(65535) for empty data too: no block at all
gzip_compress_chunks_only(d) ==
    Ok(GzipHeader \o (IF is_empty(d) THEN << >> ELSE stored_blocks(d, 65535, 1))
        \o u32_to_le_bytes(crc32(d)) \o u32_to_le_bytes(to_u32(Len(d))))

gzip_compress(d) ==
    Ok(GzipHeader \o stored_blocks(d, 65535, 1)
        \o u32_to_le_bytes(crc32(d)) \o u32_to_le_bytes(to_u32(Len(d))))

-----------------------------------------------------------------------------
(* A gzip decoder for members without optional header fields and with      *)
(* stored blocks, after RFC 1952 and RFC 1951 section 3.2.4.               *)

\* >> 8 on u32
shr8(a) == <<(a[1] \div 256) + 256 * (a[2] % 256), a[2] \div 256>>

\* RFC 1952 section 8, make_crc_table: k more rounds for one table entry
RECURSIVE crc_table_entry(_, _)
crc_table_entry(c, k) ==
    IF k = 0 THEN c
    ELSE crc_table_entry(IF c[1] % 2 = 1 THEN xor_u32(<<33568, 60856>>, shr1(c)) ELSE shr1(c),
                         k - 1)

\* the table of the CRCs of all 8-bit messages
crc_table == [n \in 0..255 |-> crc_table_entry(<<n, 0>>, 8)]

\* RFC 1952 section 8, update_crc over buf[lo..hi], entered with c
RECURSIVE update_crc(_, _, _, _)
update_crc(buf, lo, hi, c) ==
    IF lo > hi THEN c
    ELSE IF lo = hi THEN xor_u32(crc_table[xor16(c[1], buf[lo]) % 256], shr8(c))
    ELSE LET mid  == (lo + hi) \div 2
             left == update_crc(buf, lo, mid, c)
         IN  IF left[1] >= 0 THEN update_crc(buf, mid + 1, hi, left) ELSE left

\* RFC 1952 section 8, crc
reference_crc(buf) ==
    xor_u32(update_crc(buf, 1, Len(buf), <<65535, 65535>>), <<65535, 65535>>)

\* the 16-bit and the 32-bit little-endian value at position i of z
le16(z, i) == z[i] + 256 * z[i + 1]

le32(z, i) == <<le16(z, i), le16(z, i + 2)>>

\* the blocks of z from position pos on, appended to out: the data and the
\* position after the final block, or the error of the decoder
RECURSIVE inflate(_, _, _)
inflate(z, pos, out) ==
    IF pos > Len(z) THEN Err("unexpected end of stream", << >>)
    ELSE IF (z[pos] \div 2) % 4 = 3 THEN Err("invalid block type", << >>)
    ELSE IF (z[pos] \div 2) % 4 # 0 THEN Err("compressed block", << >>)
    ELSE IF pos + 4 > Len(z) THEN Err("unexpected end of stream", << >>)
    ELSE LET len  == le16(z, pos + 1)
             nlen == le16(z, pos + 3)
         IN  IF len + nlen # 65535 THEN Err("invalid stored block lengths", << >>)
             ELSE IF pos + 4 + len > Len(z) THEN Err("unexpected end of stream", << >>)
             ELSE IF z[pos] % 2 = 1
             THEN [tag |-> "ok", val |-> out \o SubSeq(z, pos + 5, pos + 4 + len),
                   next |-> pos + 5 + len]
             ELSE inflate(z, pos + 5 + len, out \o SubSeq(z, pos + 5, pos + 4 + len))

\* the data of the gzip member z, or the error of the decoder
gunzip(z) ==
    IF Len(z) < 10 THEN Err("unexpected end of stream", << >>)
    ELSE IF z[1] # 31 \/ z[2] # 139 THEN Err("not in gzip format", << >>)
    ELSE IF z[3] # 8 THEN Err("unknown compression method", << >>)
    ELSE IF z[4] # 0 THEN Err("optional header fields", << >>)
    ELSE LET blocks == inflate(z, 11, << >>)
         IN  IF blocks.tag # "ok" THEN blocks
             ELSE IF Len(z) < blocks.next + 7 THEN Err("unexpected end of stream", << >>)
             ELSE IF Len(z) > blocks.next + 7 THEN Err("trailing garbage", << >>)
             ELSE IF le32(z, blocks.next) # reference_crc(blocks.val)
             THEN Err("crc error", << >>)
             ELSE IF le32(z, blocks.next + 4)
                        # <<Len(blocks.val) % 65536, (Len(blocks.val) \div 65536) % 65536>>
             THEN Err("length error", << >>)
             ELSE Ok(blocks.val)

-----------------------------------------------------------------------------
(* crc32 and gzip_compress called on their own, and a client decoding the  *)
(* stream.                                                                 *)

\* longest of the short buffers drawn for crc32 and gzip_compress
MaxDataLen == 3

\* b"123456789"
Digits1To9 == <<49, 50, 51, 52, 53, 54, 55, 56, 57>>

\* a buffer of n bytes that differ from their neighbours
Pattern(n) == [i \in 1..n |-> i % 251]

\* buffers of no byte, of few bytes, of exactly one full block, and of one
\* byte more
CodecData ==
    SeqsUpTo({0, 49, 255}, MaxDataLen) \cup {Digits1To9, Pattern(65535), Pattern(65536)}

InitCodec ==
    /\ plugin = "rpm"
    /\ pc = "ready"
    /\ op = "none"
    /\ request = NoRequest
    /\ context = NoContext
    /\ artifacts = << >>
    /\ path = << >>
    /\ data \in CodecData
    /\ ret = NoRet
    /\ prev = NoRet
    /\ overflow_checks = FALSE

Crc32 == Return("crc32", Value(crc32(data)))

GzipCompress == Return("gzip_compress", gzip_compress(data))

\* the client decodes the stream it received
Gunzip ==
    /\ pc = "done"
    /\ op = "gzip_compress"
    /\ ret.tag = "ok"
    /\ op' = "gunzip"
    /\ prev' = ret
    /\ ret' = gunzip(ret.val)
    /\ UNCHANGED <<plugin, pc, request, context, artifacts, path, data, overflow_checks>>

NextCodec == Crc32 \/ GzipCompress \/ Gunzip

SpecCodec == InitCodec /\ [][NextCodec]_vars

-----------------------------------------------------------------------------
(* Claims about crc32 and gzip_compress (SpecCodec).                       *)

\* C18: the output of gzip_compress decodes, with a decoder that checks the
\* header, LEN against NLEN of each stored block, the final-block flag, the
\* CRC32 and the ISIZE trailer, to exactly the bytes that were compressed
C18_GzipDecodable ==
    /\ (pc = "done" /\ op = "gzip_compress") => ret.tag = "ok"
    /\ (pc = "done" /\ op = "gunzip") => ret = Ok(data)

\* C18 witness: the stream of b"123456789", one final stored block of 9 bytes,
\* was decoded to the same bytes
C18_Witness ==
    /\ pc = "done"
    /\ op = "gunzip"
    /\ data = Digits1To9
    /\ SubSeq(prev.val, 11, 15) = <<1, 9, 0, 246, 255>>
    /\ ret.tag = "ok"
    /\ ret.val = data

\* C20: crc32 is the CRC of RFC 1952 (ISO 3309): it agrees with the RFC's
\* table-driven algorithm on every buffer, is 0 for no bytes and 0xCBF43926
\* for b"123456789"
C20_Crc32 ==
    (pc = "done" /\ op = "crc32") =>
        /\ ret.val = reference_crc(data)
        /\ data = << >> => ret.val = <<0, 0>>
        /\ data = Digits1To9 => ret.val = <<14630, 52212>>

\* C20 witness: the check value of b"123456789"
C20_Witness ==
    /\ pc = "done"
    /\ op = "crc32"
    /\ data = Digits1To9
    /\ ret.val[2] = 52212
    /\ ret.val[1] = 14630

-----------------------------------------------------------------------------
(* Claims about the documents of generate_index (SpecIndex).               *)

Indexed == pc = "done" /\ op = "generate_index"

\* the names of the documents generate_index of pl returns, in order
DocumentNames(pl) ==
    CASE pl = "pypi"  -> <<"simple/index.html", "pypi-index.json">>
      [] pl = "rpm"   -> <<"rpm-index.json">>
      [] pl = "unity" -> <<"unity-index.json">>

\* C19: generate_index returns success with no index for an empty list, and
\* for every non-empty list success with the documents of its handler:
\* simple/index.html then pypi-index.json, rpm-index.json, unity-index.json
C19_GenerateIndexDocuments ==
    Indexed =>
        /\ ret.tag = "ok"
        /\ artifacts = << >> => ret.val = None
        /\ artifacts # << >> =>
              /\ IsSome(ret.val)
              /\ [k \in DOMAIN DocsOf(ret) |-> DocsOf(ret)[k][1]] = DocumentNames(plugin)

-----------------------------------------------------------------------------
(* Claims about the RPM package list (SpecRequest).                        *)

\* the characters the five predefined entities of XML stand for
XmlEntities ==
    << <<(<<"&", "a", "m", "p", ";">>), "&">>, <<(<<"&", "l", "t", ";">>), "<">>,
       <<(<<"&", "g", "t", ";">>), ">">>, <<(<<"&", "q", "u", "o", "t", ";">>), "\"">>,
       <<(<<"&", "a", "p", "o", "s", ";">>), "'">> >>

\* the character data an XML parser reads from the text t
RECURSIVE XmlText(_)
XmlText(t) ==
    IF Len(t) = 0 THEN << >>
    ELSE LET hits == {k \in DOMAIN XmlEntities : starts_with(t, XmlEntities[k][1])}
         IN  IF hits = {} THEN <<t[1]>> \o XmlText(Tail(t))
             ELSE LET k == Min(hits)
                  IN  <<XmlEntities[k][2]>>
                          \o XmlText(SubSeq(t, Len(XmlEntities[k][1]) + 1, Len(t)))

\* the fields of the RPM filename f by the grammar of C13, absent ones replaced
NameOrUnknown(f) ==
    IF ~ends_with(f, DotRpm) THEN <<"u", "n", "k", "n", "o", "w", "n">>
    ELSE UpToLast(UpToLast(UpToLast(SubSeq(f, 1, Len(f) - Len(DotRpm)), "."), "-"), "-")

ArchOrDefault(f) ==
    IF ~ends_with(f, DotRpm) \/ ~IsSome(AfterLast(SubSeq(f, 1, Len(f) - Len(DotRpm)), "."))
    THEN <<"x", "8", "6", "_", "6", "4">>
    ELSE Unwrap(AfterLast(SubSeq(f, 1, Len(f) - Len(DotRpm)), "."))

VersionOrZero(f) == IF IsSome(VersionField(f)) THEN Unwrap(VersionField(f)) ELSE <<"0">>

ReleaseOrZero(f) == IF IsSome(ReleaseField(f)) THEN Unwrap(ReleaseField(f)) ELSE <<"0">>

\* C21: the package list of /repodata/primary.xml.gz, before compression, has
\* packages equal to the number of artifacts and one entry per artifact in list
\* order, with the name, arch, version and release of the artifact's filename
\* (unknown, x86_64, 0, 0 for absent fields), its checksum if known, its
\* size_bytes, the location packages/filename and one provides entry repeating
\* name, version and release
C21_PrimaryXml ==
    (Handled /\ plugin = "rpm" /\ GetOrHead
        /\ trim_end_matches(request.path, "/") = PrimaryXmlGzPath) =>
        /\ ret.tag = "ok"
        /\ ret.val.status = 200
        /\ ret.val.body.kind = "gzip"
        /\ ret.val.body.xml.root = "metadata"
        /\ ret.val.body.xml.packages = Len(artifacts)
        /\ Len(ret.val.body.xml.entries) = Len(artifacts)
        /\ \A i \in DOMAIN artifacts :
              LET e == ret.val.body.xml.entries[i]
                  f == filename_of(artifacts[i].path)
              IN  /\ XmlText(e.name) = NameOrUnknown(f)
                  /\ XmlText(e.arch) = ArchOrDefault(f)
                  /\ XmlText(e.ver) = VersionOrZero(f)
                  /\ XmlText(e.rel) = ReleaseOrZero(f)
                  /\ IsSome(artifacts[i].checksum_sha256) =>
                        e.checksum = Unwrap(artifacts[i].checksum_sha256)
                  /\ ~IsSome(artifacts[i].checksum_sha256) => e.checksum = << >>
                  /\ e.size = artifacts[i].size_bytes
                  /\ XmlText(e.location) = <<"p", "a", "c", "k", "a", "g", "e", "s", "/">> \o f
                  /\ Len(e.provides) = 1
                  /\ e.provides[1] = [name |-> e.name, ver |-> e.ver, rel |-> e.rel]

\* C21 witness: a list of a package whose name needs escaping and has no
\* arch or version, and of a file that is no RPM
C21_Witness ==
    /\ Handled
    /\ plugin = "rpm"
    /\ request.method = "GET"
    /\ request.path = PrimaryXmlGzPath
    /\ Len(artifacts) = 2
    /\ filename_of(artifacts[1].path) = <<"<", "&", "-", "1">> \o DotRpm
    /\ ~ends_with(artifacts[2].path, DotRpm)
    /\ ret.tag = "ok"
    /\ ret.val.body.xml.entries[1].name = <<"&", "l", "t", ";", "&", "a", "m", "p", ";">>
    /\ ret.val.body.xml.entries[1].ver = <<"0">>
    /\ ret.val.body.xml.entries[2].name = <<"u", "n", "k", "n", "o", "w", "n">>

-----------------------------------------------------------------------------
(* Claims about the framing of gzip_compress (SpecCodec).                  *)

Compressed == pc = "done" /\ op = "gzip_compress"

\* the number of stored blocks for n bytes: max(1, ceil(n / 65535))
BlockCount(n) == IF n = 0 THEN 1 ELSE (n + 65534) \div 65535

\* C22: the output of gzip_compress for n bytes is the header 1f 8b 08 00 00
\* 00 00 00 00 ff, then max(1, ceil(n/65535)) stored blocks, each but the last
\* of 65535 bytes, each a header byte (01 for the last block only, else 00),
\* the chunk length and its one's complement as 16-bit little-endian, and the
\* chunk; then 8 more bytes: n + 18 + 5 * max(1, ceil(n/65535)) bytes in all
C22_StoredBlockFraming ==
    Compressed =>
        LET z == ret.val
            n == Len(data)
            k == BlockCount(n)
        IN  /\ ret.tag = "ok"
            /\ Len(z) = n + 18 + 5 * k
            /\ SubSeq(z, 1, 10) = <<31, 139, 8, 0, 0, 0, 0, 0, 0, 255>>
            /\ \A j \in 1..k :
                  LET pos == 11 + (j - 1) * 65540
                      len == IF j < k THEN 65535 ELSE n - (k - 1) * 65535
                  IN  /\ z[pos] = IF j = k THEN 1 ELSE 0
                      /\ z[pos + 1] + 256 * z[pos + 2] = len
                      /\ z[pos + 3] + 256 * z[pos + 4] = 65535 - len
                      /\ SubSeq(z, pos + 5, pos + 4 + len)
                            = SubSeq(data, (j - 1) * 65535 + 1, (j - 1) * 65535 + len)

\* C22 witness: no bytes are framed as one final stored block of length 0
C22_Witness ==
    /\ Compressed
    /\ data = << >>
    /\ ret.tag = "ok"
    /\ Len(ret.val) = 23
    /\ SubSeq(ret.val, 11, 15) = <<1, 0, 0, 255, 255>>

-----------------------------------------------------------------------------
(* Claims about the totals of the JSON catalog (SpecIndex).                *)

\* a + b on limbs without a width: one limb more than a u64, so that the sum
\* of the model's lists is exact
RECURSIVE AddExact(_, _, _, _)
AddExact(a, b, i, carry) ==
    IF i > 5 THEN << >>
    ELSE LET t == a[i] + b[i] + carry
         IN  <<t % LimbBase>> \o AddExact(a, b, i + 1, t \div LimbBase)

\* the arithmetic sum of the size_bytes of as, on 5 limbs
RECURSIVE ExactSum(_)
ExactSum(as) ==
    IF Len(as) = 0 THEN <<0, 0, 0, 0, 0>>
    ELSE AddExact(as[1].size_bytes \o <<0>>, ExactSum(Tail(as)), 1, 0)

\* C23: for every non-empty list generate_index returns normally and its JSON
\* catalog has total_count equal to the number of artifacts, one packages
\* entry per artifact, and total_size_bytes equal to the arithmetic sum of the
\* size_bytes
C23_JsonTotals ==
    (Indexed /\ artifacts # << >>) =>
        /\ ret.tag = "ok"
        /\ LET docs == DocsOf(ret)
               json == docs[Len(docs)][2]
           IN  /\ json.total_count = Len(artifacts)
               /\ Len(json.packages) = Len(artifacts)
               /\ json.total_size_bytes \o <<0>> = ExactSum(artifacts)

-----------------------------------------------------------------------------
(* Claims about the version of a generic asset (SpecFilename).             *)

\* the generic-asset handler has extracted a version from path, directly or
\* in parse_metadata
VersionExtracted ==
    /\ pc = "done"
    /\ plugin = "unity"
    /\ op \in {"extract_version_from_path", "parse_metadata"}

ExtractedVersion == IF op = "parse_metadata" THEN ret.val.version ELSE ret.val

\* s looks like a version: after an optional leading 'v' it starts with a
\* digit, contains a '.', and has only digits, letters, '.' and '-'
LooksLikeVersion(s) ==
    LET t == IF Len(s) > 0 /\ s[1] = "v" THEN Tail(s) ELSE s
    IN  /\ Len(t) > 0
        /\ t[1] \in Range(Digits)
        /\ \E i \in DOMAIN t : t[i] = "."
        /\ \A i \in DOMAIN t :
               t[i] \in Range(Digits) \cup Range(Uppers) \cup Range(Lowers) \cup {".", "-"}

\* the positions of the '/'-separated segments of p that look like a version
VersionSegments(p) == {i \in DOMAIN split(p, "/") : LooksLikeVersion(split(p, "/")[i])}

\* the filename f without ".unitypackage", or else without its last extension
Stem(f) ==
    IF Len(f) >= Len(DotUnitypackage)
       /\ SubSeq(f, Len(f) - Len(DotUnitypackage) + 1, Len(f)) = DotUnitypackage
    THEN SubSeq(f, 1, Len(f) - Len(DotUnitypackage))
    ELSE UpToLast(f, ".")

\* the filename heuristic: what follows the first '-' of the stem that has a
\* digit right after it, if that looks like a version
FilenameHeuristic(p) ==
    LET st == Stem(IF AfterLast(p, "/") = None THEN p ELSE Unwrap(AfterLast(p, "/")))
        hyphens == {i \in 1..(Len(st) - 1) : st[i] = "-" /\ st[i + 1] \in Range(Digits)}
    IN  IF hyphens = {} THEN None
        ELSE LET remainder == SubSeq(st, Min(hyphens) + 1, Len(st))
             IN  IF LooksLikeVersion(remainder) THEN Some(remainder) ELSE None

\* C24: when a '/'-separated segment of the path looks like a version, the
\* rightmost such segment is returned unchanged, whatever version the
\* filename encodes
C24_SegmentBeforeFilename ==
    (VersionExtracted /\ VersionSegments(path) # {}) =>
        ExtractedVersion = Some(split(path, "/")[Max(VersionSegments(path))])

\* extract_version_from_path returned a directory segment with a leading 'v'
\* although the filename encodes another version
C24_Witness ==
    /\ VersionExtracted
    /\ op = "extract_version_from_path"
    /\ Len(split(path, "/")) > 1
    /\ FilenameHeuristic(path) # None
    /\ FilenameHeuristic(path) # ExtractedVersion
    /\ ExtractedVersion = Some(<<"v", "1", ".", "0">>)

\* C25: when no path segment looks like a version, the version is what
\* follows the first '-' of the filename stem that has a digit right after it,
\* if that remainder looks like a version, and no version is returned if it
\* does not or if there is no such '-'
C25_FilenameFallback ==
    (VersionExtracted /\ VersionSegments(path) = {}) =>
        ExtractedVersion = FilenameHeuristic(path)

\* C30: for a path whose filename ends in ".unitypackage" the version, when
\* present, is not the whole filename and does not end with ".unitypackage"
C30_VersionIsNotTheFilename ==
    (/\ VersionExtracted
     /\ ends_with(filename_of(path), DotUnitypackage)
     /\ IsSome(ExtractedVersion)) =>
        /\ Unwrap(ExtractedVersion) # filename_of(path)
        /\ ~ends_with(Unwrap(ExtractedVersion), DotUnitypackage)

-----------------------------------------------------------------------------
(* Claims about the links between the Python pages (SpecRequest).          *)

FollowedRootLink == pc = "done" /\ op = "follow root link"

FollowedProjectLink == pc = "done" /\ op = "follow project link"

RequestedAlias == pc = "done" /\ op = "request alias"

\* C26: a GET request for the path of a link of the root index, over the same
\* artifact list, is answered 200 with a project page of at least one link
C26_RootLinksResolve ==
    FollowedRootLink =>
        /\ ret.tag = "ok"
        /\ ret.val.status = 200
        /\ ret.val.body.kind = "html"
        /\ ret.val.body.title = "Links for {}"
        /\ Len(ret.val.body.links) >= 1

\* C27: for every artifact A shown on a project page, a GET request for the
\* path /packages/{filename of A} of its link, over the same artifact list, is
\* answered 302 with location download_base_url/A.path
C27_ProjectLinksResolve ==
    FollowedProjectLink =>
        \A i \in SelectedFor(prev.val.body.title_arg) :
            (request.path = SlashPackagesSlash \o filename_of(artifacts[i].path)) =>
                /\ ret.tag = "ok"
                /\ ret.val.status = 302
                /\ HeaderOf(ret.val, "location")
                      = Some(context.download_base_url \o <<"/">> \o artifacts[i].path)

\* C29: two GET requests for project pages whose project segments have the
\* same normalized name, each with or without a trailing '/', over the same
\* artifact list, have the same status and, when it is 200, the same body
C29_LookupByNormalizedName ==
    RequestedAlias =>
        /\ ret.tag = "ok"
        /\ ret.val.status = prev.val.status
        /\ ret.val.status = 200 => ret.val.body = prev.val.body

\* /simple/B-_C was answered 200 and then /simple/b.c/ was asked
C29_Witness ==
    /\ RequestedAlias
    /\ request.path = SlashSimpleSlash \o <<"b", ".", "c", "/">>
    /\ prev.val.status = 200
    /\ prev.val.body.title_arg = <<"b", "-", "c">>
    /\ ret.val.status = 200
    /\ Len(ret.val.body.links) >= 1

-----------------------------------------------------------------------------
(* Claims about the fields of an RPM filename (SpecFilename).              *)

RpmFilenameParsed == pc = "done" /\ plugin = "rpm" /\ op = "parse_rpm_filename"

\* the number of '-' in the filename f without its ".rpm"
StemHyphens(f) == Cardinality(Positions(SubSeq(f, 1, Len(f) - Len(DotRpm)), "-"))

\* C28: parse_rpm_filename gives a version only with a release and a name
\* exactly for a filename ending in ".rpm"; the version parse_metadata reports
\* is never a version without a release, and a filename with a single '-' in
\* its stem reports none
C28_VersionImpliesRelease ==
    /\ RpmFilenameParsed =>
          /\ IsSome(ret.val.version) => IsSome(ret.val.release)
          /\ IsSome(ret.val.name) <=> ends_with(filename_of(path), DotRpm)
    /\ (Parsed /\ plugin = "rpm" /\ ret.tag = "ok") =>
          LET f == filename_of(path)
          IN  /\ IsSome(ret.val.version) =>
                    /\ IsSome(VersionField(f))
                    /\ IsSome(ReleaseField(f))
                    /\ ret.val.version = Some(Unwrap(VersionField(f)) \o <<"-">>
                                                 \o Unwrap(ReleaseField(f)))
              /\ (ends_with(f, DotRpm) /\ StemHyphens(f) = 1) => ret.val.version = None

\* name-1.2.3.x86_64.rpm has the release 1.2.3 and no version
C28_Witness ==
    /\ RpmFilenameParsed
    /\ filename_of(path) = Name123Rpm
    /\ ret.val.name = Some(<<"n", "a", "m", "e">>)
    /\ ret.val.version = None
    /\ ret.val.release = Some(<<"1", ".", "2", ".", "3">>)

====
